---- MODULE Spec2Model ----
(***************************************************************************)
(* Model of the hydration service's QueueManager (src/src/queue.rs), the   *)
(* closures main.rs passes to update_process_status, and the persistence   *)
(* layer (src/src/state.rs).                                               *)
(*                                                                         *)
(* Option<T> is modelled as a sequence: None is <<>>, Some(v) is <<v>>.    *)
(* Process ids are 1..NumIds; their order as integers stands for the       *)
(* lexicographic order of the id strings.  Utc::now() is the token Now; a  *)
(* display name is 0 when a config supplied it and the id when load_state  *)
(* defaulted it.  A QueueManager method is one atomic action, except in    *)
(* LockSpec, RaceSpec and LiveSpec, where a call is a task that takes      *)
(* and drops the four RwLocks step by step.                                *)
(*                                                                         *)
(* Spec        every call on the processes CoreIds, with at most MaxExtra  *)
(*             successful restart_process / update_process_status calls    *)
(*             and at most one reload of the state file.                   *)
(* FifoSpec    add_to_queue, activate_next, mark_synced and mark_error on  *)
(*             the processes Ids (no restart, no reload).                  *)
(* DerivedSpec the derived fields deficit and reserves_match on bounded    *)
(*             records.                                                    *)
(* StartupSpec Spec followed by a restart of the service: load_state and   *)
(*             main's reconciliation with the config file.                 *)
(* TaskSpec    monitor_loop and the tasks of the monitoring loops on the   *)
(*             processes TaskIds, interleaved with the two handlers.       *)
(* LockSpec    at most MaxCalls concurrent calls on the processes TaskIds, *)
(*             lock by lock.                                               *)
(* PollSpec    monitor_loop, initialization, the check_process tasks read  *)
(*             by read and the cron-list tasks on the processes TaskIds.   *)
(* WindowSpec  up to MaxWindowPolls polls of an admitted process.          *)
(* AdmitSpec   the scheduler cycle on the processes Ids: admission,        *)
(*             initialization and check tasks.                             *)
(* GuardSpec   the loops and their tasks with the guard monitor_cron_list  *)
(*             holds for its lookup.                                       *)
(* RaceSpec    concurrent add_to_queue and activate_next calls on the      *)
(*             processes CoreIds, lock by lock.                            *)
(* LiveSpec    RaceSpec's calls under fair scheduling, with the end of     *)
(*             the work on an admitted process.                            *)
(* CrashSpec   monitor_loop and its tasks under fair scheduling, with one  *)
(*             crash after a save and the restart of the service.          *)
(***************************************************************************)
EXTENDS Integers, Sequences, FiniteSets, Bags, TLC

\* ---------------------------------------------------------------- bounds
NumIds == 3
NumCore == 2
MaxLimit == 2
MaxExtra == 2
MaxSlot == 1
MaxTasks == 2
MaxUpdates == 3
MaxRestarts == 1
NumTaskIds == 1
MaxCalls == 2
MaxPolls == 4
MaxWindowPolls == 12

\* ------------------------------------------------------------- constants
WINDOW == 20
Now == 0

Ids == 1..NumIds
CoreIds == 1..NumCore
TaskIds == 1..NumTaskIds
Limits == 1..MaxLimit
Slots == 0..MaxSlot
Names == {0}
Latencies == {1}
Minutes == {0, 1}
InitError == "init failed"

None == <<>>
Some(v) == <<v>>
IsSome(o) == o /= <<>>
Unwrap(o) == o[1]

BaseUrls == {None}

\* ------------------------------------------------------------ HashMap ops
Keys(map) == DOMAIN map
\* A faulty insert: the map forgets its other keys.
PutAlone(map, k, v) == [x \in {k} |-> v]

Put(map, k, v) == [x \in (DOMAIN map) \cup {k} |-> IF x = k THEN v ELSE map[x]]
Remove(map, k) == [x \in (DOMAIN map) \ {k} |-> map[x]]
EmptyMap == [x \in {} |-> 0]

\* ------------------------------------------------------ sequence helpers
IsPrefix(a, b) == Len(a) <= Len(b) /\ SubSeq(b, 1, Len(a)) = a
QueueIds(queue) == [i \in 1..Len(queue) |-> queue[i].process_id]
InQueue(queue, id) == \E i \in 1..Len(queue) : queue[i].process_id = id
Size(map) == Cardinality(Keys(map))

\* ------------------------------------------------------------- models.rs
DefaultMetrics ==
    [initial_slot_deficit |-> None,
     slots_advanced_last_check |-> 0,
     total_slots_advanced |-> 0,
     sync_start_time |-> None,
     sync_end_time |-> None,
     avg_sync_rate |-> 0,
     check_count |-> 0,
     api_response_times |-> <<>>]

NewStatus(name, process_id) ==
    [name |-> name,
     process_id |-> process_id,
     state |-> "Queued",
     cron_initialized |-> FALSE,
     computed_slot |-> None,
     current_slot |-> None,
     last_checked |-> None,
     error |-> None,
     metrics |-> DefaultMetrics,
     queue_position |-> None,
     activated_at |-> None,
     synced_at |-> None,
     hb_reserves |-> None,
     ao_reserves |-> None,
     reserves_last_checked |-> None,
     cron_created_at |-> None]

\* ProcessStatus::deficit
deficit(status) ==
    IF /\ IsSome(status.current_slot)
       /\ IsSome(status.computed_slot)
       /\ Unwrap(status.current_slot) > Unwrap(status.computed_slot)
    THEN Some(Unwrap(status.current_slot) - Unwrap(status.computed_slot))
    ELSE None

\* ProcessStatus::is_synced
is_synced(status) ==
    /\ IsSome(status.current_slot)
    /\ IsSome(status.computed_slot)
    /\ Unwrap(status.current_slot) = Unwrap(status.computed_slot)

\* A process id is 43 characters long.
TOKEN_ID_LEN == 43
NamedFields == {"TokenA", "TokenB", "K"}

\* A faulty reserves_match: every key is compared, whatever its length.
reserves_match_all_keys(status) ==
    IF IsSome(status.hb_reserves) /\ IsSome(status.ao_reserves)
    THEN LET hb == Unwrap(status.hb_reserves)
             ao == Unwrap(status.ao_reserves)
         IN IF Cardinality(DOMAIN hb) /= Cardinality(DOMAIN ao)
            THEN Some(FALSE)
            ELSE IF \E token_id \in DOMAIN hb :
                       token_id \notin DOMAIN ao \/ hb[token_id] /= ao[token_id]
                 THEN Some(FALSE)
                 ELSE Some(TRUE)
    ELSE None

\* ProcessStatus::reserves_match
reserves_match(status) ==
    IF IsSome(status.hb_reserves) /\ IsSome(status.ao_reserves)
    THEN LET hb == Unwrap(status.hb_reserves)
             ao == Unwrap(status.ao_reserves)
             hb_tokens == {key \in DOMAIN hb :
                              Len(key) = TOKEN_ID_LEN /\ key \notin NamedFields}
             ao_tokens == {key \in DOMAIN ao : Len(key) = TOKEN_ID_LEN}
         IN IF Cardinality(hb_tokens) /= Cardinality(ao_tokens)
            THEN Some(FALSE)
            ELSE IF \E token_id \in hb_tokens :
                       token_id \notin ao_tokens \/ hb[token_id] /= ao[token_id]
                 THEN Some(FALSE)
                 ELSE Some(TRUE)
    ELSE None

ProcessConfig(name, process_id, base_url) ==
    [name |-> name, process_id |-> process_id, base_url |-> base_url]

Configs == {ProcessConfig(n, id, b) : n \in Names, id \in Ids, b \in BaseUrls}

\* ------------------------------------------------------------------ state
VARIABLES
    limit,          \* the concurrency limit the manager was built with
    all_processes,  \* registry: id -> ProcessStatus
    active,         \* Active Index: id -> ProcessStatus copy
    synced,         \* Synced Index: id -> ProcessStatus copy
    queued,         \* FIFO of ProcessConfig
    state_loaded,   \* main.rs: the manager was rebuilt from the state file
    last,           \* history: the call that returned last and its result
                    \*   (arg is the id of a call that succeeded)
    restarts,       \* history: successful restart_process calls so far
    updates,        \* history: successful update_process_status calls so far
    order,          \* history: ids accepted by add_to_queue, in call order
    admitted,       \* history: ids returned by activate_next, in call order
    scen,           \* history: progress through the capacity scenario
    tasks           \* bag of the running tasks, each with its local variables

mem == <<all_processes, active, synced, queued>>
vars == <<limit, all_processes, active, synced, queued, state_loaded,
          last, restarts, updates, order, admitted, scen, tasks>>

Call(op, arg, ret) == [op |-> op, arg |-> arg, ret |-> ret]

\* The capacity scenario of the specification (limit 2, P1 P2 P3 = 1 2 3).
Script ==
    << <<"add_to_queue", Some(1)>>, <<"add_to_queue", Some(2)>>,
       <<"add_to_queue", Some(3)>>, <<"activate_next", None>>,
       <<"activate_next", None>>, <<"activate_next", None>>,
       <<"mark_synced", Some(1)>>, <<"activate_next", None>> >>

ScenOff == 0 - 1

ScenStep(op, arg) ==
    IF scen >= 0 /\ scen < Len(Script) /\ Script[scen + 1] = <<op, arg>>
    THEN scen + 1
    ELSE ScenOff

\* Every call records itself and advances (or abandons) the scenario.
Observe(op, arg, ret) ==
    /\ last' = Call(op, arg, ret)
    /\ scen' = ScenStep(op, arg)

\* The FIFO history is kept only for runs without restart or reload.
FifoTracked == restarts = 0 /\ ~state_loaded

\* The manager main builds, before any task runs.
NewManager ==
    /\ limit \in Limits
    /\ all_processes = EmptyMap
    /\ active = EmptyMap
    /\ synced = EmptyMap
    /\ queued = <<>>
    /\ state_loaded = FALSE
    /\ last = Call("new", None, "Ok")
    /\ restarts = 0
    /\ updates = 0
    /\ order = <<>>
    /\ admitted = <<>>
    /\ scen = IF limit = 2 THEN 0 ELSE ScenOff

Init == NewManager /\ tasks = EmptyBag

\* --------------------------------------------------------------- queue.rs
\* A faulty push_back: the config goes to the head of the queue.
push_front(queue, config) == <<config>> \o queue

push_back(queue, config) == Append(queue, config)

\* A faulty AlreadyExists: only a record still Queued counts as existing.
AlreadyQueued(all, process_id) ==
    process_id \in Keys(all) /\ all[process_id].state = "Queued"

AlreadyExists(all, process_id) == process_id \in Keys(all)

add_to_queue(config) ==
    LET process_id == config.process_id IN
    IF AlreadyExists(all_processes, process_id)
    THEN /\ Observe("add_to_queue", None, "Err")
         /\ UNCHANGED <<limit, all_processes, active, synced, queued,
                        state_loaded, restarts, updates, order, admitted>>
    ELSE LET queue == push_back(queued, config)
             status == [NewStatus(config.name, process_id) EXCEPT
                            !.queue_position = Some(Len(queue) - 1)]
         IN /\ queued' = queue
            /\ all_processes' = Put(all_processes, process_id, status)
            /\ Observe("add_to_queue", Some(process_id), "Ok")
            /\ order' = IF FifoTracked THEN Append(order, process_id) ELSE order
            /\ UNCHANGED <<limit, active, synced, state_loaded, restarts,
                           updates, admitted>>

\* A faulty AtCapacity: off by one.
OverCapacity(active_count, max_active) == active_count > max_active

AtCapacity(active_count, max_active) == active_count >= max_active

Activated(status) ==
    [status EXCEPT !.state = "Active",
                   !.activated_at = Some(Now),
                   !.queue_position = None]

RECURSIVE UpdateQueuePositions(_, _, _)
UpdateQueuePositions(all, queue, i) ==
    IF i > Len(queue) THEN all
    ELSE LET pid == queue[i].process_id IN
         UpdateQueuePositions(
             IF pid \in Keys(all)
             THEN [all EXCEPT ![pid].queue_position = Some(i - 1)]
             ELSE all,
             queue, i + 1)

activate_next ==
    IF AtCapacity(Cardinality(Keys(active)), limit) \/ queued = <<>>
    THEN /\ Observe("activate_next", None, None)
         /\ UNCHANGED <<limit, all_processes, active, synced, queued,
                        state_loaded, restarts, updates, order, admitted>>
    ELSE LET config == Head(queued)
             process_id == config.process_id
             queue == Tail(queued)
             found == process_id \in Keys(all_processes)
             all1 == IF found
                     THEN [all_processes EXCEPT ![process_id] = Activated(@)]
                     ELSE all_processes
         IN /\ queued' = queue
            /\ active' = IF found THEN Put(active, process_id, all1[process_id])
                         ELSE active
            /\ all_processes' = UpdateQueuePositions(all1, queue, 1)
            /\ Observe("activate_next", None, Some(process_id))
            /\ admitted' = IF FifoTracked THEN Append(admitted, process_id)
                           ELSE admitted
            /\ UNCHANGED <<limit, synced, state_loaded, restarts, updates,
                           order>>

mark_synced(process_id) ==
    IF process_id \in Keys(active)
    THEN LET status == [active[process_id] EXCEPT !.state = "Synced",
                                                  !.synced_at = Some(Now)]
         IN /\ active' = Remove(active, process_id)
            /\ synced' = Put(synced, process_id, status)
            /\ all_processes' = Put(all_processes, process_id, status)
            /\ Observe("mark_synced", Some(process_id), "Ok")
            /\ UNCHANGED <<limit, queued, state_loaded, restarts, updates,
                           order, admitted>>
    ELSE /\ Observe("mark_synced", None, "Err")
         /\ UNCHANGED <<limit, all_processes, active, synced, queued,
                        state_loaded, restarts, updates, order, admitted>>

mark_error(process_id, error) ==
    IF process_id \in Keys(active)
    THEN LET status == [active[process_id] EXCEPT !.state = "Error",
                                                  !.error = Some(error)]
         IN /\ active' = Remove(active, process_id)
            /\ all_processes' = Put(all_processes, process_id, status)
            /\ Observe("mark_error", Some(process_id), "Ok")
            /\ UNCHANGED <<limit, synced, queued, state_loaded, restarts,
                           updates, order, admitted>>
    ELSE /\ Observe("mark_error", None, "Err")
         /\ UNCHANGED <<limit, all_processes, active, synced, queued,
                        state_loaded, restarts, updates, order, admitted>>

\* A faulty ResetStatus: the metrics survive the restart.
ResetStatusKeepMetrics(status) ==
    [status EXCEPT !.state = "Queued",
                   !.error = None,
                   !.cron_initialized = FALSE,
                   !.activated_at = None,
                   !.synced_at = None]

ResetStatus(status) ==
    [status EXCEPT !.state = "Queued",
                   !.error = None,
                   !.cron_initialized = FALSE,
                   !.activated_at = None,
                   !.synced_at = None,
                   !.metrics = DefaultMetrics]

\* A faulty restart_process: the config is queued before the lookup.
restart_process_push_first(process_id) ==
    LET config == ProcessConfig(process_id, process_id, None)
        queue == push_back(queued, config)
    IN IF process_id \in Keys(all_processes)
       THEN /\ queued' = queue
            /\ all_processes' = [all_processes EXCEPT ![process_id] =
                    [ResetStatus(@) EXCEPT !.queue_position = Some(Len(queue) - 1)]]
            /\ Observe("restart_process", Some(process_id), "Ok")
            /\ restarts' = restarts + 1
            /\ order' = <<>>
            /\ admitted' = <<>>
            /\ UNCHANGED <<limit, active, synced, state_loaded, updates>>
       ELSE /\ queued' = queue
            /\ Observe("restart_process", None, "Err")
            /\ UNCHANGED <<limit, all_processes, active, synced,
                           state_loaded, restarts, updates, order, admitted>>

restart_process(process_id) ==
    IF process_id \in Keys(all_processes)
    THEN LET status == ResetStatus(all_processes[process_id])
             config == ProcessConfig(status.name, process_id, None)
             queue == push_back(queued, config)
         IN /\ queued' = queue
            /\ all_processes' = [all_processes EXCEPT ![process_id] =
                    [status EXCEPT !.queue_position = Some(Len(queue) - 1)]]
            /\ Observe("restart_process", Some(process_id), "Ok")
            /\ restarts' = restarts + 1
            /\ order' = <<>>
            /\ admitted' = <<>>
            /\ UNCHANGED <<limit, active, synced, state_loaded, updates>>
    ELSE /\ Observe("restart_process", None, "Err")
         /\ UNCHANGED <<limit, all_processes, active, synced, queued,
                        state_loaded, restarts, updates, order, admitted>>

\* update_process_config, last loop: the first queue entry of the process
\* takes the name and the endpoint
RECURSIVE UpdateFirstEntry(_, _, _, _)
UpdateFirstEntry(queue, process_id, name, base_url) ==
    IF queue = <<>> THEN <<>>
    ELSE IF Head(queue).process_id = process_id
         THEN <<ProcessConfig(name, process_id, base_url)>> \o Tail(queue)
         ELSE <<Head(queue)>> \o
              UpdateFirstEntry(Tail(queue), process_id, name, base_url)

update_process_config(process_id, name, base_url) ==
    /\ all_processes' = IF process_id \in Keys(all_processes)
                        THEN [all_processes EXCEPT ![process_id].name = name]
                        ELSE all_processes
    /\ active' = IF process_id \in Keys(active)
                 THEN [active EXCEPT ![process_id].name = name]
                 ELSE active
    /\ synced' = IF process_id \in Keys(synced)
                 THEN [synced EXCEPT ![process_id].name = name]
                 ELSE synced
    /\ queued' = UpdateFirstEntry(queued, process_id, name, base_url)
    /\ Observe("update_process_config", Some(process_id), "Ok")
    /\ UNCHANGED <<limit, state_loaded, restarts, updates, order, admitted>>

\* ----------------------------------------- main.rs: the update closures
\* hyperbeam.rs SlotCheckResult
SlotCheckResult(computed_slot, current_slot, computed_time, current_time) ==
    [computed_slot |-> computed_slot, current_slot |-> current_slot,
     computed_response_time |-> computed_time,
     current_response_time |-> current_time]

result_is_synced(result) == result.computed_slot = result.current_slot

result_deficit(result) ==
    IF result.current_slot > result.computed_slot
    THEN result.current_slot - result.computed_slot
    ELSE 0

SlotResults ==
    {SlotCheckResult(c, k, t1, t2) :
        c \in Slots, k \in Slots, t1 \in Latencies, t2 \in Latencies}

\* Poll results that differ in the latency of the computed read.
WindowResults == {SlotCheckResult(0, 1, l, 3) : l \in {1, 2}}

\* hyperbeam.rs: what get_slot_value returns, a failure or (slot, latency)
SlotReads == {None} \cup {Some(<<v, l>>) : v \in Slots, l \in Latencies}

\* A faulty check_slots: a read that failed counts as slot 0.
check_slots_lenient(computed_read, current_read) ==
    LET computed == IF IsSome(computed_read) THEN Unwrap(computed_read)
                    ELSE <<0, 0>>
        current == IF IsSome(current_read) THEN Unwrap(current_read)
                   ELSE <<0, 0>>
    IN Some(SlotCheckResult(computed[1], current[1], computed[2], current[2]))

\* hyperbeam.rs check_slots: both reads are awaited, then either failure
\* is the failure of the call
check_slots(computed_read, current_read) ==
    IF IsSome(computed_read) /\ IsSome(current_read)
    THEN Some(SlotCheckResult(Unwrap(computed_read)[1], Unwrap(current_read)[1],
                              Unwrap(computed_read)[2], Unwrap(current_read)[2]))
    ELSE None

\* A faulty LastN: the oldest n samples are kept.
FirstN(seq, n) == IF Len(seq) > n THEN SubSeq(seq, 1, n) ELSE seq

LastN(seq, n) == IF Len(seq) > n THEN SubSeq(seq, Len(seq) - n + 1, Len(seq)) ELSE seq

\* avg_sync_rate = total_slots_advanced / minutes, in whole units
Rate(total, minutes) == total \div minutes

\* initialize_process, first closure
InitFlagFn(status) == [status EXCEPT !.cron_initialized = TRUE]

\* initialize_process, second closure; the startup recovery closure is the same
FirstSlotsFn(status, result) ==
    LET s1 == [status EXCEPT !.computed_slot = Some(result.computed_slot),
                             !.current_slot = Some(result.current_slot),
                             !.last_checked = Some(Now),
                             !.metrics.check_count = 1]
    IN IF result.computed_slot < result.current_slot
       THEN [s1 EXCEPT !.metrics.initial_slot_deficit =
                            Some(result.current_slot - result.computed_slot),
                       !.metrics.sync_start_time = Some(Now)]
       ELSE s1

\* A faulty CheckFn: the change of computed_slot is added with its sign.
CheckFnSigned(status, previous_computed, result, minutes) ==
    LET s1 == [status EXCEPT
                 !.computed_slot = Some(result.computed_slot),
                 !.current_slot = Some(result.current_slot),
                 !.last_checked = Some(Now),
                 !.metrics.check_count = @ + 1]
    IN IF IsSome(previous_computed)
       THEN [s1 EXCEPT !.metrics.total_slots_advanced =
                          @ + result.computed_slot - Unwrap(previous_computed)]
       ELSE s1

\* check_process, first closure; previous_computed comes from the caller's
\* snapshot of the record, minutes is the time since sync_start_time
CheckFn(status, previous_computed, result, minutes) ==
    LET s1 == [status EXCEPT
                 !.computed_slot = Some(result.computed_slot),
                 !.current_slot = Some(result.current_slot),
                 !.last_checked = Some(Now),
                 !.metrics.check_count = @ + 1,
                 !.metrics.api_response_times =
                     LastN(@ \o <<result.computed_response_time,
                                  result.current_response_time>>, WINDOW)]
        s2 == IF IsSome(previous_computed)
              THEN IF result.computed_slot > Unwrap(previous_computed)
                   THEN [s1 EXCEPT
                          !.metrics.slots_advanced_last_check =
                              result.computed_slot - Unwrap(previous_computed),
                          !.metrics.total_slots_advanced =
                              @ + result.computed_slot - Unwrap(previous_computed)]
                   ELSE [s1 EXCEPT !.metrics.slots_advanced_last_check = 0]
              ELSE s1
        s3 == IF ~IsSome(s2.metrics.initial_slot_deficit)
              THEN [s2 EXCEPT
                     !.metrics.initial_slot_deficit = Some(result_deficit(result)),
                     !.metrics.sync_start_time = Some(Now)]
              ELSE s2
    IN IF IsSome(s3.metrics.sync_start_time) /\ minutes > 0
          /\ s3.metrics.total_slots_advanced > 0
       THEN [s3 EXCEPT !.metrics.avg_sync_rate =
                            Rate(s3.metrics.total_slots_advanced, minutes)]
       ELSE s3

\* check_process second closure and monitor_synced_pools second closure
ReservesFn(status, hb, ao) ==
    [status EXCEPT !.hb_reserves = hb,
                   !.ao_reserves = ao,
                   !.reserves_last_checked = Some(Now)]

\* monitor_queue_slots
PrefetchFn(status, current_slot) ==
    [status EXCEPT !.current_slot = Some(current_slot),
                   !.last_checked = Some(Now)]

\* monitor_cron_list; minutes is the time since the cron was created
CronFn(status, result, created_at, minutes) ==
    LET old_computed == status.computed_slot
        s1 == [status EXCEPT !.computed_slot = Some(result.computed_slot),
                             !.current_slot = Some(result.current_slot),
                             !.last_checked = Some(Now),
                             !.cron_created_at = created_at]
        s2 == IF IsSome(old_computed) /\ result.computed_slot > Unwrap(old_computed)
              THEN [s1 EXCEPT !.metrics.total_slots_advanced =
                                  @ + result.computed_slot - Unwrap(old_computed)]
              ELSE s1
    IN IF IsSome(created_at) /\ minutes > 0 /\ s2.metrics.total_slots_advanced > 0
       THEN [s2 EXCEPT !.metrics.avg_sync_rate =
                            Rate(s2.metrics.total_slots_advanced, minutes)]
       ELSE s2

\* monitor_synced_pools, first closure
SyncedSlotsFn(status, result) ==
    [status EXCEPT !.computed_slot = Some(result.computed_slot),
                   !.current_slot = Some(result.current_slot),
                   !.last_checked = Some(Now)]

\* Two token process ids (43 characters each) and the reserve amounts.
TokenX == "xU9zFkq1n3rT5vW7yA2cD4eG6hJ8kL0mN1pQ3sR5tV8"
TokenY == "yB7dHfJ2lM4oP6qS8uW0xZ1aC3eG5iK7mO9rT2vX4zA"
Amounts == {"100", "200"}

ReserveMaps == {[token \in {TokenX} |-> "100"]}
FetchedReserves == {None} \cup {Some(m) : m \in ReserveMaps}
OptSlots == {None} \cup {Some(v) : v \in Slots}
OptTimes == {None, Some(Now)}

\* The closures main.rs builds, with the values they capture.
UpdateFns ==
    {[kind |-> "init_flag"]}
    \cup {[kind |-> "first_slots", result |-> r] : r \in SlotResults}
    \cup {[kind |-> "check", previous_computed |-> p, result |-> r, minutes |-> m] :
            p \in OptSlots, r \in SlotResults, m \in Minutes}
    \cup {[kind |-> "reserves", hb |-> h, ao |-> a] :
            h \in FetchedReserves, a \in FetchedReserves}
    \cup {[kind |-> "prefetch", current_slot |-> k] : k \in Slots}
    \cup {[kind |-> "cron", result |-> r, created_at |-> t, minutes |-> m] :
            r \in SlotResults, t \in OptTimes, m \in Minutes}
    \cup {[kind |-> "synced_slots", result |-> r] : r \in SlotResults}

\* The closures of one initialisation, one poll that finds the process
\* advanced from slot 0 to the head slot 1, and one reserve fetch.
CoreFns ==
    {f \in UpdateFns :
        \/ f.kind = "init_flag"
        \/ /\ f.kind = "check"
           /\ f.previous_computed = Some(0)
           /\ f.result = SlotCheckResult(1, 1, 1, 1)
           /\ f.minutes = 1
        \/ /\ f.kind = "reserves"
           /\ IsSome(f.hb)
           /\ IsSome(f.ao)}

Apply(update_fn, status) ==
    CASE update_fn.kind = "init_flag" -> InitFlagFn(status)
      [] update_fn.kind = "first_slots" -> FirstSlotsFn(status, update_fn.result)
      [] update_fn.kind = "check" ->
            CheckFn(status, update_fn.previous_computed, update_fn.result,
                    update_fn.minutes)
      [] update_fn.kind = "reserves" ->
            ReservesFn(status, update_fn.hb, update_fn.ao)
      [] update_fn.kind = "prefetch" -> PrefetchFn(status, update_fn.current_slot)
      [] update_fn.kind = "cron" ->
            CronFn(status, update_fn.result, update_fn.created_at, update_fn.minutes)
      [] update_fn.kind = "synced_slots" -> SyncedSlotsFn(status, update_fn.result)

\* A faulty update_process_status: the Synced Index keeps its old copy.
update_process_status_stale_synced(process_id, update_fn) ==
    IF process_id \in Keys(all_processes)
    THEN LET status == Apply(update_fn, all_processes[process_id])
         IN /\ all_processes' = [all_processes EXCEPT ![process_id] = status]
            /\ active' = IF process_id \in Keys(active)
                         THEN [active EXCEPT ![process_id] = status]
                         ELSE active
            /\ Observe("update_process_status", Some(process_id), "Ok")
            /\ updates' = updates + 1
            /\ UNCHANGED <<limit, synced, queued, state_loaded, restarts, order,
                           admitted>>
    ELSE /\ Observe("update_process_status", None, "Err")
         /\ UNCHANGED <<limit, all_processes, active, synced, queued,
                        state_loaded, restarts, updates, order, admitted>>

update_process_status(process_id, update_fn) ==
    IF process_id \in Keys(all_processes)
    THEN LET status == Apply(update_fn, all_processes[process_id])
         IN /\ all_processes' = [all_processes EXCEPT ![process_id] = status]
            /\ active' = IF process_id \in Keys(active)
                         THEN [active EXCEPT ![process_id] = status]
                         ELSE active
            /\ synced' = IF process_id \in Keys(synced)
                         THEN [synced EXCEPT ![process_id] = status]
                         ELSE synced
            /\ Observe("update_process_status", Some(process_id), "Ok")
            /\ updates' = updates + 1
            /\ UNCHANGED <<limit, queued, state_loaded, restarts, order, admitted>>
    ELSE /\ Observe("update_process_status", None, "Err")
         /\ UNCHANGED <<limit, all_processes, active, synced, queued,
                        state_loaded, restarts, updates, order, admitted>>

\* --------------------------------------------------------------- state.rs
ProcessStatusData(status) ==
    [state |-> status.state,
     cron_initialized |-> status.cron_initialized,
     computed_slot |-> status.computed_slot,
     current_slot |-> status.current_slot,
     last_checked |-> status.last_checked,
     synced_at |-> status.synced_at,
     activated_at |-> status.activated_at,
     metrics |->
        [initial_slot_deficit |-> status.metrics.initial_slot_deficit,
         total_slots_advanced |-> status.metrics.total_slots_advanced,
         sync_start_time |-> status.metrics.sync_start_time,
         sync_end_time |-> status.metrics.sync_end_time,
         avg_sync_rate |-> status.metrics.avg_sync_rate,
         check_count |-> status.metrics.check_count]]

\* The StateFile save_state writes for a manager holding (all, act, syn, queue).
save_state(all, act, syn, queue) ==
    [version |-> "2.0",
     last_updated |-> Now,
     active_process_ids |-> Keys(act),
     synced_process_ids |-> Keys(syn),
     queued_process_ids |-> [i \in 1..Len(queue) |-> queue[i].process_id],
     processes |-> [id \in Keys(all) |-> ProcessStatusData(all[id])]]

\* load_state, first loop: the record rebuilt from its persisted subset
RestoredStatus(id, data) ==
    [name |-> id,
     process_id |-> id,
     state |-> data.state,
     cron_initialized |-> data.cron_initialized,
     computed_slot |-> data.computed_slot,
     current_slot |-> data.current_slot,
     last_checked |-> data.last_checked,
     error |-> None,
     metrics |->
        [initial_slot_deficit |-> data.metrics.initial_slot_deficit,
         slots_advanced_last_check |-> 0,
         total_slots_advanced |-> data.metrics.total_slots_advanced,
         sync_start_time |-> data.metrics.sync_start_time,
         sync_end_time |-> data.metrics.sync_end_time,
         avg_sync_rate |-> data.metrics.avg_sync_rate,
         check_count |-> data.metrics.check_count,
         api_response_times |-> <<>>],
     queue_position |-> None,
     activated_at |-> data.activated_at,
     synced_at |-> data.synced_at,
     hb_reserves |-> None,
     ao_reserves |-> None,
     reserves_last_checked |-> None,
     cron_created_at |-> None]

\* load_state, explicit-list path: walk queued_process_ids from index i
RECURSIVE RestoreQueue(_, _, _, _)
RestoreQueue(all, queue, ids, i) ==
    IF i > Len(ids) THEN [all |-> all, queue |-> queue]
    ELSE LET process_id == ids[i] IN
         IF process_id \in Keys(all)
         THEN RestoreQueue(
                 [all EXCEPT ![process_id].queue_position = Some(i - 1),
                             ![process_id].state = "Queued"],
                 push_back(queue, ProcessConfig(all[process_id].name, process_id, None)),
                 ids, i + 1)
         ELSE RestoreQueue(all, queue, ids, i + 1)

\* queued_processes.sort(): the ids of a set in ascending order
RECURSIVE Sorted(_)
Sorted(set) ==
    IF set = {} THEN <<>>
    ELSE LET least == CHOOSE x \in set : \A y \in set : x <= y
         IN <<least>> \o Sorted(set \ {least})

\* load_state, fallback path: walk the sorted Queued ids from index i
RECURSIVE RestoreLegacyQueue(_, _, _, _)
RestoreLegacyQueue(all, queue, ids, i) ==
    IF i > Len(ids) THEN [all |-> all, queue |-> queue]
    ELSE LET process_id == ids[i] IN
         IF process_id \in Keys(all)
         THEN RestoreLegacyQueue(
                 [all EXCEPT ![process_id].queue_position = Some(i - 1)],
                 push_back(queue, ProcessConfig(all[process_id].name, process_id, None)),
                 ids, i + 1)
         ELSE RestoreLegacyQueue(all, queue, ids, i + 1)

\* The manager load_state builds from a StateFile, starting from an empty one.
load_state(file) ==
    LET all0 == [id \in Keys(file.processes) |->
                    RestoredStatus(id, file.processes[id])]
        act == [id \in {x \in Keys(all0) : file.processes[x].state = "Active"} |->
                    all0[id]]
        syn == [id \in {x \in Keys(all0) : file.processes[x].state = "Synced"} |->
                    all0[id]]
        q == IF file.queued_process_ids /= <<>>
             THEN RestoreQueue(all0, <<>>, file.queued_process_ids, 1)
             ELSE RestoreLegacyQueue(all0, <<>>,
                    Sorted({x \in Keys(file.processes) :
                                file.processes[x].state = "Queued"}), 1)
    IN [all_processes |-> q.all, active |-> act, synced |-> syn, queued |-> q.queue]

\* A crash right after a save, and the restart of the service: save_state
\* writes the file, main builds an empty manager and load_state fills it.
\* What load_state builds depends on the file alone, so operations between
\* the save and the crash would not add reachable manager states.
recover ==
    LET loaded == load_state(save_state(all_processes, active, synced, queued))
    IN /\ ~state_loaded
       /\ all_processes' = loaded.all_processes
       /\ active' = loaded.active
       /\ synced' = loaded.synced
       /\ queued' = loaded.queued
       /\ state_loaded' = TRUE
       /\ Observe("load_state", None, "Ok")
       /\ order' = <<>>
       /\ admitted' = <<>>
       /\ UNCHANGED <<limit, restarts, updates>>

\* -------------------------------------------------- main.rs: tasks
\* tokio::spawn, the end of a task, and a task's move to its next await
Spawn(t) == tasks (+) SetToBag({t})
Finish(t) == tasks (-) SetToBag({t})
Move(t, next) == (tasks (-) SetToBag({t})) (+) SetToBag({next})

\* The four loops main spawns run for ever; monitor_loop is a task of the
\* bag, the other three spawn their work at any time.  A step of a task is a
\* remote call together with the manager call that follows it.
MonitorTask(pc) == [kind |-> "monitor", pc |-> pc]
InitTask(config) == [kind |-> "init", pc |-> "cron", config |-> config]
CheckTask(process) ==
    [kind |-> "check", pc |-> "poll", process_id |-> process.process_id,
     previous_computed |-> process.computed_slot]
CronTask(process_id, created_at) ==
    [kind |-> "cron", pc |-> "poll", process_id |-> process_id,
     created_at |-> created_at]
SyncedTask(process_id) ==
    [kind |-> "synced", pc |-> "slots", process_id |-> process_id]
PrefetchTask(process_id) ==
    [kind |-> "prefetch", pc |-> "poll", process_id |-> process_id]

At(t, kind, pc) == t.kind = kind /\ t.pc = pc
Running == BagToSet(tasks)
CanSpawn(n) == BagCardinality(tasks) + n <= MaxTasks + 1

Idle == UNCHANGED <<limit, all_processes, active, synced, queued,
                    state_loaded, last, restarts, updates, order, admitted,
                    scen>>

\* monitor_loop: a check_process task for every initialized process of the
\* Active Index snapshot.  A task whose first poll fails changes nothing,
\* so the tasks spawned are those of any set of the eligible processes.
monitor_checks ==
    \E t \in Running, ids \in SUBSET Keys(active) :
        /\ At(t, "monitor", "checks")
        /\ \A id \in ids : active[id].cron_initialized
        /\ CanSpawn(Cardinality(ids))
        /\ tasks' = Move(t, MonitorTask("admit"))
                        (+) SetToBag({CheckTask(active[id]) : id \in ids})
        /\ Idle

\* A faulty monitor_admit: one admission per cycle (if let for while let).
monitor_admit_once ==
    \E t \in Running :
        /\ At(t, "monitor", "admit")
        /\ activate_next
        /\ last'.ret /= None => CanSpawn(1)
        /\ tasks' = IF last'.ret = None
                    THEN Move(t, MonitorTask("save"))
                    ELSE Move(t, MonitorTask("save"))
                             (+) SetToBag({InitTask(Head(queued))})

\* monitor_loop: while activate_next returns a config, spawn its
\* initialization
monitor_admit ==
    \E t \in Running :
        /\ At(t, "monitor", "admit")
        /\ activate_next
        /\ last'.ret /= None => CanSpawn(1)
        /\ tasks' = IF last'.ret = None
                    THEN Move(t, MonitorTask("save"))
                    ELSE Spawn(InitTask(Head(queued)))

\* monitor_loop: save_state, then sleep until the next round
monitor_save ==
    \E t \in Running :
        /\ At(t, "monitor", "save")
        /\ tasks' = Move(t, MonitorTask("checks"))
        /\ Idle

\* initialize_process: initialize_cron succeeded
init_cron(t) ==
    /\ At(t, "init", "cron")
    /\ update_process_status(t.config.process_id, [kind |-> "init_flag"])
    /\ tasks' = IF last'.ret = "Ok" THEN Move(t, [t EXCEPT !.pc = "slots"])
                ELSE Move(t, [t EXCEPT !.pc = "failed"])

\* initialize_process: the first check_slots succeeded
init_slots(t, result) ==
    /\ At(t, "init", "slots")
    /\ update_process_status(t.config.process_id,
                             [kind |-> "first_slots", result |-> result])
    /\ tasks' = IF last'.ret = "Ok" THEN Finish(t)
                ELSE Move(t, [t EXCEPT !.pc = "failed"])

\* monitor_loop: initialize_process returned an error
init_failed(t) ==
    /\ t.kind = "init"
    /\ mark_error(t.config.process_id, InitError)
    /\ tasks' = Finish(t)

\* check_process: check_slots succeeded
check_poll(t, result, minutes) ==
    /\ At(t, "check", "poll")
    /\ update_process_status(t.process_id,
            [kind |-> "check", previous_computed |-> t.previous_computed,
             result |-> result, minutes |-> minutes])
    /\ tasks' = IF last'.ret = "Ok" /\ result_is_synced(result)
                THEN Move(t, [t EXCEPT !.pc = "mark"])
                ELSE Finish(t)

\* check_process: the poll found the slots equal
check_mark(t) ==
    /\ At(t, "check", "mark")
    /\ mark_synced(t.process_id)
    /\ tasks' = IF last'.ret = "Ok" THEN Move(t, [t EXCEPT !.pc = "reserves"])
                ELSE Finish(t)

\* check_process: fetch_reserves succeeded for the newly synced process
check_reserves(t, hb, ao) ==
    /\ At(t, "check", "reserves")
    /\ update_process_status(t.process_id,
                             [kind |-> "reserves", hb |-> hb, ao |-> ao])
    /\ tasks' = Finish(t)

\* check_process, read by read: the two slot reads of check_slots have
\* come back
ReadTask(t, computed_read, current_read) ==
    [kind |-> "check", pc |-> "read", process_id |-> t.process_id,
     previous_computed |-> t.previous_computed,
     computed_read |-> computed_read, current_read |-> current_read]

check_read(t, computed_read, current_read) ==
    /\ At(t, "check", "poll")
    /\ tasks' = Move(t, ReadTask(t, computed_read, current_read))
    /\ Idle

\* check_process: check_slots returns; its error ends the task, its result
\* goes to the first closure
check_result(t, minutes) ==
    /\ At(t, "check", "read")
    /\ LET result == check_slots(t.computed_read, t.current_read)
           process == [process_id |-> t.process_id,
                       computed_slot |-> t.previous_computed]
       IN IF IsSome(result)
          THEN /\ update_process_status(t.process_id,
                     [kind |-> "check",
                      previous_computed |-> t.previous_computed,
                      result |-> Unwrap(result), minutes |-> minutes])
               /\ tasks' = IF last'.ret = "Ok"
                                /\ result_is_synced(Unwrap(result))
                           THEN Move(t, [CheckTask(process) EXCEPT
                                            !.pc = "mark"])
                           ELSE Finish(t)
          ELSE /\ tasks' = Finish(t)
               /\ Idle

\* monitor_cron_list: a task for a cron item of a registered process
spawn_cron(process_id, created_at) ==
    /\ process_id \in Keys(all_processes)
    /\ CanSpawn(1)
    /\ tasks' = Spawn(CronTask(process_id, created_at))
    /\ Idle

\* monitor_cron_list task: check_slots succeeded
cron_poll(t, result, minutes) ==
    /\ At(t, "cron", "poll")
    /\ update_process_status(t.process_id,
            [kind |-> "cron", result |-> result, created_at |-> t.created_at,
             minutes |-> minutes])
    /\ tasks' = IF result_is_synced(result)
                THEN Move(t, [t EXCEPT !.pc = "mark"])
                ELSE Finish(t)

\* monitor_cron_list task: the poll found the slots equal
cron_mark(t) ==
    /\ At(t, "cron", "mark")
    /\ mark_synced(t.process_id)
    /\ tasks' = Finish(t)

\* monitor_synced_pools: a task for a process of the Synced Index snapshot
spawn_synced(process_id) ==
    /\ process_id \in Keys(synced)
    /\ CanSpawn(1)
    /\ tasks' = Spawn(SyncedTask(process_id))
    /\ Idle

\* monitor_synced_pools task: check_slots succeeded
synced_slots(t, result) ==
    /\ At(t, "synced", "slots")
    /\ update_process_status(t.process_id,
                             [kind |-> "synced_slots", result |-> result])
    /\ tasks' = Move(t, [t EXCEPT !.pc = "reserves"])

\* monitor_synced_pools task: fetch_reserves succeeded
synced_reserves(t, hb, ao) ==
    /\ At(t, "synced", "reserves")
    /\ update_process_status(t.process_id,
                             [kind |-> "reserves", hb |-> hb, ao |-> ao])
    /\ tasks' = Finish(t)

\* monitor_queue_slots: the next process of the queue preview; the loop
\* polls them one after the other
spawn_prefetch(process_id) ==
    /\ InQueue(queued, process_id)
    /\ process_id \in Keys(all_processes)
    /\ \A t \in Running : t.kind /= "prefetch"
    /\ CanSpawn(1)
    /\ tasks' = Spawn(PrefetchTask(process_id))
    /\ Idle

\* monitor_queue_slots: check_current_slot succeeded
prefetch(t, current_slot) ==
    /\ At(t, "prefetch", "poll")
    /\ update_process_status(t.process_id,
                             [kind |-> "prefetch", current_slot |-> current_slot])
    /\ tasks' = Finish(t)

\* A remote call failed: a poll or a reserve fetch ends its task with the
\* manager untouched, except that the synced-pool task goes on to its
\* reserve fetch.
remote_error(t) ==
    /\ \/ t.kind = "check" /\ t.pc \in {"poll", "reserves"}
       \/ At(t, "cron", "poll")
       \/ t.kind = "synced"
       \/ At(t, "prefetch", "poll")
    /\ tasks' = IF At(t, "synced", "slots")
                THEN Move(t, [t EXCEPT !.pc = "reserves"])
                ELSE Finish(t)
    /\ Idle

\* main, recovery: a task for every process of the Active Index that is
\* initialized and has no computed slot
RecoverTask(process_id) ==
    [kind |-> "recover", pc |-> "slots", process_id |-> process_id]

\* The service crashes right after monitor_loop has saved the state, and
\* starts again: every task is gone, load_state rebuilds the manager, main
\* spawns the recovery tasks and monitor_loop.
crash ==
    \E t \in Running :
        /\ At(t, "monitor", "save")
        /\ recover
        /\ tasks' = SetToBag({MonitorTask("checks")}
                        \cup {RecoverTask(id) : id \in
                                {x \in Keys(active') :
                                    /\ active'[x].cron_initialized
                                    /\ active'[x].computed_slot = None}})

\* recovery task: check_slots succeeded; the result of the update is dropped
recover_slots(t, result) ==
    /\ At(t, "recover", "slots")
    /\ update_process_status(t.process_id,
                             [kind |-> "first_slots", result |-> result])
    /\ tasks' = Finish(t)

\* recovery task: check_slots failed
recover_failed(t) ==
    /\ At(t, "recover", "slots")
    /\ tasks' = Finish(t)
    /\ Idle

\* a guard of an RwLock
Read(lock) == <<lock, "read">>
Write(lock) == <<lock, "write">>

\* monitor_cron_list: the loop itself, with the cron items it still has to
\* look at and the guards it holds.  Every other task of the bag takes a
\* lock only inside a manager call, which drops its guards when it returns.
CronListTask(pc, items, held) ==
    [kind |-> "cron_list", pc |-> pc, items |-> items, held |-> held]

CronPids == 1..(NumTaskIds + 1)
CronLists ==
    {<<>>} \cup {<<a>> : a \in CronPids}
           \cup {<<a, b>> : a \in CronPids, b \in CronPids}

Held(t) == IF t.kind = "cron_list" THEN t.held ELSE {}

\* the awaits of a remote call: fetch_cron_list, initialize_cron,
\* check_slots, check_current_slot and fetch_reserves
RemoteCalls ==
    {<<"cron_list", "fetch">>, <<"init", "cron">>, <<"init", "slots">>,
     <<"check", "poll">>, <<"check", "reserves">>, <<"cron", "poll">>,
     <<"synced", "slots">>, <<"synced", "reserves">>,
     <<"prefetch", "poll">>}

InFlight(t) == <<t.kind, t.pc>> \in RemoteCalls

\* fetch_cron_list returned: Ok with the items, or Err (no items looked at)
cron_list_fetched(t, items) ==
    /\ At(t, "cron_list", "fetch")
    /\ tasks' = Move(t, CronListTask(IF items = <<>> THEN "sleep" ELSE "lookup",
                                     items, t.held))
    /\ Idle

\* all_processes.read() for the next cron item
cron_list_lookup(t) ==
    /\ At(t, "cron_list", "lookup")
    /\ tasks' = Move(t, CronListTask("decide", t.items,
                                     t.held \cup {Read("all_processes")}))
    /\ Idle

\* A faulty cron_list_decide: the guard is dropped only on the branch that
\* spawns the task.
cron_list_decide_held(t, created_at) ==
    /\ At(t, "cron_list", "decide")
    /\ LET process_id == Head(t.items)
           rest == Tail(t.items)
           pc == IF rest = <<>> THEN "sleep" ELSE "lookup"
       IN IF process_id \in Keys(all_processes)
          THEN /\ CanSpawn(1)
               /\ tasks' = Move(t, CronListTask(pc, rest,
                                   t.held \ {Read("all_processes")}))
                               (+) SetToBag({CronTask(process_id, created_at)})
          ELSE tasks' = Move(t, CronListTask(pc, rest, t.held))
    /\ Idle

\* contains_key: a tracked process has the guard dropped and its task
\* spawned, for any other the guard goes out of scope with the block
cron_list_decide(t, created_at) ==
    /\ At(t, "cron_list", "decide")
    /\ LET process_id == Head(t.items)
           rest == Tail(t.items)
           next == CronListTask(IF rest = <<>> THEN "sleep" ELSE "lookup",
                                rest, t.held \ {Read("all_processes")})
       IN IF process_id \in Keys(all_processes)
          THEN /\ CanSpawn(1)
               /\ tasks' = Move(t, next)
                               (+) SetToBag({CronTask(process_id, created_at)})
          ELSE tasks' = Move(t, next)
    /\ Idle

\* the sleep at the end of the round, then the next fetch_cron_list
cron_list_sleep(t) ==
    /\ At(t, "cron_list", "sleep")
    /\ tasks' = Move(t, CronListTask("fetch", <<>>, t.held))
    /\ Idle

\* ------------------------------------------------ queue.rs: the locks
\* A call of a manager operation as a task of its own: at every step it is
\* granted the RwLock it awaits, runs the code up to its next await and
\* drops the guards that go out of scope there.  A read guard is granted
\* when no other task holds the write guard, a write guard when no other
\* task holds any guard of the lock.
CallTask(op, process_id, pc, wants, held, local) ==
    [kind |-> "call", op |-> op, process_id |-> process_id, pc |-> pc,
     wants |-> wants, held |-> held, local |-> local]

\* the process a call is about, for the calls that name one
Target(t) == Unwrap(t.process_id)

Others(t) == BagToSet(Finish(t))

Available(t, guard) ==
    \A u \in Others(t) :
        /\ Write(guard[1]) \notin u.held
        /\ guard[2] = "write" => Read(guard[1]) \notin u.held

Granted(t, op, pc) ==
    /\ t.kind = "call"
    /\ t.op = op
    /\ t.pc = pc
    /\ Available(t, t.wants)

\* the call of op starts and awaits its first lock
CanCall == BagCardinality(tasks) < MaxCalls

Begin(op, process_id, pc, wants, local) ==
    /\ tasks' = Spawn(CallTask(op, process_id, pc, wants, {}, local))
    /\ Idle

\* the task keeps the guards held and awaits the next lock
Await(t, pc, wants, held, local) ==
    /\ tasks' = Move(t, CallTask(t.op, t.process_id, pc, wants, held, local))
    /\ UNCHANGED <<last, scen>>

\* the call returns and drops every guard
Return(t, arg, ret) ==
    /\ tasks' = Finish(t)
    /\ Observe(t.op, arg, ret)

history == <<state_loaded, restarts, updates, order, admitted>>

\* add_to_queue: all_processes.read(), dropped after the duplicate check
add_check(t) ==
    /\ Granted(t, "add_to_queue", "check")
    /\ IF AlreadyExists(all_processes, Target(t))
       THEN Return(t, None, "Err")
       ELSE Await(t, "push", Write("queued"), {}, t.local)
    /\ UNCHANGED <<limit, mem, history>>

\* add_to_queue: queued.write(), dropped after the push
add_push(t) ==
    /\ Granted(t, "add_to_queue", "push")
    /\ LET queue == push_back(queued, Unwrap(t.local).config)
           status == [NewStatus(Unwrap(t.local).config.name, Target(t)) EXCEPT
                          !.queue_position = Some(Len(queue) - 1)]
       IN /\ queued' = queue
          /\ Await(t, "insert", Write("all_processes"), {},
                   Some([Unwrap(t.local) EXCEPT !.status = Some(status)]))
    /\ UNCHANGED <<limit, all_processes, active, synced, history>>

\* add_to_queue: all_processes.write()
add_insert(t) ==
    /\ Granted(t, "add_to_queue", "insert")
    /\ all_processes' = Put(all_processes, Target(t), Unwrap(Unwrap(t.local).status))
    /\ Return(t, Some(Target(t)), "Ok")
    /\ order' = IF FifoTracked THEN Append(order, Target(t)) ELSE order
    /\ UNCHANGED <<limit, active, synced, queued, state_loaded, restarts,
                   updates, admitted>>

\* activate_next: active.read(), a temporary dropped after len()
next_count(t) ==
    /\ Granted(t, "activate_next", "count")
    /\ IF AtCapacity(Cardinality(Keys(active)), limit)
       THEN Return(t, None, None)
       ELSE Await(t, "pop", Write("queued"), {}, None)
    /\ UNCHANGED <<limit, mem, history>>

\* activate_next: queued.write(), dropped after pop_front
next_pop(t) ==
    /\ Granted(t, "activate_next", "pop")
    /\ IF queued = <<>>
       THEN Return(t, None, None) /\ UNCHANGED queued
       ELSE /\ queued' = Tail(queued)
            /\ Await(t, "status", Write("all_processes"), {},
                     Some(Head(queued)))
    /\ UNCHANGED <<limit, all_processes, active, synced, history>>

\* activate_next: all_processes.write(), held to the end
next_status(t) ==
    /\ Granted(t, "activate_next", "status")
    /\ LET process_id == Unwrap(t.local).process_id IN
       IF process_id \in Keys(all_processes)
       THEN /\ all_processes' =
                   [all_processes EXCEPT ![process_id] = Activated(@)]
            /\ Await(t, "insert", Write("active"), {t.wants}, t.local)
       ELSE /\ UNCHANGED all_processes
            /\ Await(t, "positions", Read("queued"), {t.wants}, t.local)
    /\ UNCHANGED <<limit, active, synced, queued, history>>

\* activate_next: active.write(), dropped at the end of the if-let block
next_insert(t) ==
    /\ Granted(t, "activate_next", "insert")
    /\ LET process_id == Unwrap(t.local).process_id IN
       active' = Put(active, process_id, all_processes[process_id])
    /\ Await(t, "positions", Read("queued"), t.held, t.local)
    /\ UNCHANGED <<limit, all_processes, synced, queued, history>>

\* activate_next: queued.read(), the positions of the entries left
next_positions(t) ==
    /\ Granted(t, "activate_next", "positions")
    /\ all_processes' = UpdateQueuePositions(all_processes, queued, 1)
    /\ Return(t, None, Some(Unwrap(t.local).process_id))
    /\ admitted' = IF FifoTracked
                   THEN Append(admitted, Unwrap(t.local).process_id)
                   ELSE admitted
    /\ UNCHANGED <<limit, active, synced, queued, state_loaded, restarts,
                   updates, order>>

\* mark_synced and mark_error: active.write(), held to the end
mark_remove(t) ==
    /\ t.kind = "call"
    /\ t.op \in {"mark_synced", "mark_error"}
    /\ Granted(t, t.op, "remove")
    /\ IF Target(t) \in Keys(active)
       THEN LET status ==
                    IF t.op = "mark_synced"
                    THEN [active[Target(t)] EXCEPT
                              !.state = "Synced", !.synced_at = Some(Now)]
                    ELSE [active[Target(t)] EXCEPT
                              !.state = "Error", !.error = Some(InitError)]
            IN /\ active' = Remove(active, Target(t))
               /\ IF t.op = "mark_synced"
                  THEN Await(t, "synced", Write("synced"), {t.wants},
                             Some(status))
                  ELSE Await(t, "all", Write("all_processes"), {t.wants},
                             Some(status))
       ELSE /\ UNCHANGED active
            /\ Return(t, None, "Err")
    /\ UNCHANGED <<limit, all_processes, synced, queued, history>>

\* mark_synced: synced.write(), held to the end
mark_insert(t) ==
    /\ Granted(t, "mark_synced", "synced")
    /\ synced' = Put(synced, Target(t), Unwrap(t.local))
    /\ Await(t, "all", Write("all_processes"), t.held \cup {t.wants}, t.local)
    /\ UNCHANGED <<limit, all_processes, active, queued, history>>

\* mark_synced and mark_error: all_processes.write()
mark_all(t) ==
    /\ t.kind = "call"
    /\ t.op \in {"mark_synced", "mark_error"}
    /\ Granted(t, t.op, "all")
    /\ all_processes' = Put(all_processes, Target(t), Unwrap(t.local))
    /\ Return(t, Some(Target(t)), "Ok")
    /\ UNCHANGED <<limit, active, synced, queued, history>>

\* restart_process: all_processes.write(), held to the end
restart_reset(t) ==
    /\ Granted(t, "restart_process", "reset")
    /\ IF Target(t) \in Keys(all_processes)
       THEN /\ all_processes' =
                   [all_processes EXCEPT ![Target(t)] = ResetStatus(@)]
            /\ Await(t, "push", Write("queued"), {t.wants}, None)
            /\ restarts' = restarts + 1
            /\ order' = <<>>
            /\ admitted' = <<>>
       ELSE /\ Return(t, None, "Err")
            /\ UNCHANGED <<all_processes, restarts, order, admitted>>
    /\ UNCHANGED <<limit, active, synced, queued, state_loaded, updates>>

\* restart_process: queued.write()
restart_push(t) ==
    /\ Granted(t, "restart_process", "push")
    /\ LET config == ProcessConfig(all_processes[Target(t)].name,
                                   Target(t), None)
           queue == push_back(queued, config)
       IN /\ queued' = queue
          /\ all_processes' = [all_processes EXCEPT
                 ![Target(t)].queue_position = Some(Len(queue) - 1)]
    /\ Return(t, Some(Target(t)), "Ok")
    /\ UNCHANGED <<limit, active, synced, history>>

\* update_process_status: all_processes.write(), held to the end
update_all(t) ==
    /\ Granted(t, "update_process_status", "all")
    /\ IF Target(t) \in Keys(all_processes)
       THEN /\ all_processes' = [all_processes EXCEPT
                   ![Target(t)] = Apply(Unwrap(t.local), @)]
            /\ Await(t, "active", Write("active"), {t.wants}, t.local)
            /\ updates' = updates + 1
       ELSE /\ Return(t, None, "Err")
            /\ UNCHANGED <<all_processes, updates>>
    /\ UNCHANGED <<limit, active, synced, queued, state_loaded, restarts,
                   order, admitted>>

\* update_process_status: active.write(), dropped after the copy
update_active(t) ==
    /\ Granted(t, "update_process_status", "active")
    /\ active' = IF Target(t) \in Keys(active)
                 THEN [active EXCEPT
                          ![Target(t)] = all_processes[Target(t)]]
                 ELSE active
    /\ Await(t, "synced", Write("synced"), t.held, t.local)
    /\ UNCHANGED <<limit, all_processes, synced, queued, history>>

\* update_process_status: synced.write()
update_synced(t) ==
    /\ Granted(t, "update_process_status", "synced")
    /\ synced' = IF Target(t) \in Keys(synced)
                 THEN [synced EXCEPT
                          ![Target(t)] = all_processes[Target(t)]]
                 ELSE synced
    /\ Return(t, Some(Target(t)), "Ok")
    /\ UNCHANGED <<limit, all_processes, active, queued, history>>

\* get_queue_preview: queued.read(), then all_processes.read()
preview_queue(t) ==
    /\ Granted(t, "get_queue_preview", "queue")
    /\ Await(t, "all", Read("all_processes"), {t.wants}, None)
    /\ UNCHANGED <<limit, mem, history>>

preview_all(t) ==
    /\ Granted(t, "get_queue_preview", "all")
    /\ Return(t, None, "Ok")
    /\ UNCHANGED <<limit, mem, history>>

\* save_state: the four read guards, each held to the end
SaveOrder == <<"all_processes", "active", "synced", "queued">>

save_read(t, i) ==
    /\ i < Len(SaveOrder)
    /\ Granted(t, "save_state", SaveOrder[i])
    /\ Await(t, SaveOrder[i + 1], Read(SaveOrder[i + 1]),
             t.held \cup {t.wants}, None)
    /\ UNCHANGED <<limit, mem, history>>

save_write(t) ==
    /\ Granted(t, "save_state", SaveOrder[Len(SaveOrder)])
    /\ Return(t, None, "Ok")
    /\ UNCHANGED <<limit, mem, history>>

\* The task waits for a guard that another task holds.
Blocked(t) == t.kind = "call" /\ ~Available(t, t.wants)

\* The tasks of the set wait for each other: each of them waits for a guard
\* that a task of the set holds.
WaitForEachOther(waiting) ==
    \A t \in waiting :
        /\ Blocked(t)
        /\ \E u \in waiting \ {t} :
              \/ Write(t.wants[1]) \in u.held
              \/ t.wants[2] = "write" /\ Read(t.wants[1]) \in u.held

\* ------------------------------------------------ main.rs: startup
\* The desired configs of the config file: a name and an optional endpoint.
Endpoints == {None, Some("http://node")}
DesiredConfigs ==
    {ProcessConfig(n, id, b) : n \in Names, id \in CoreIds, b \in Endpoints}

\* Config files: the desired configs of distinct processes, in any order.
ConfigFiles ==
    {<<c>> : c \in DesiredConfigs}
    \cup {file \in {<<c, d>> : c \in DesiredConfigs, d \in DesiredConfigs} :
                file[1].process_id /= file[2].process_id}

MainTask(existing_ids, config) ==
    [kind |-> "main", existing_ids |-> existing_ids, config |-> config]

\* The service starts: the state file of the last save is loaded and main
\* snapshots the registered ids before it walks the config file.
startup(config) ==
    /\ tasks = EmptyBag
    /\ recover
    /\ tasks' = SetToBag({MainTask(Keys(all_processes'), config)})

\* One iteration of the reconciliation loop of main.
reconcile ==
    \E t \in BagToSet(tasks) :
        /\ t.kind = "main"
        /\ t.config /= <<>>
        /\ LET process_config == Head(t.config) IN
           /\ IF process_config.process_id \in t.existing_ids
              THEN update_process_config(process_config.process_id,
                                         process_config.name,
                                         process_config.base_url)
              ELSE add_to_queue(process_config)
           /\ tasks' = Move(t, [t EXCEPT !.config = Tail(@)])

\* ------------------------------------------- main.rs: the derived fields
\* The status page calls deficit() and reserves_match() on the records it
\* shows; check_process calls deficit() on the poll result.
SlotStatuses ==
    {[NewStatus(0, 1) EXCEPT !.computed_slot = c, !.current_slot = k] :
        c \in OptSlots, k \in OptSlots}

ReserveKeys == {TokenX, TokenY, "TokenA"}
PartialMaps == UNION {[keys -> Amounts] : keys \in SUBSET ReserveKeys}
OptReserves == {None} \cup {Some(m) : m \in PartialMaps}
ReserveStatuses ==
    {[NewStatus(0, 1) EXCEPT !.hb_reserves = h, !.ao_reserves = a] :
        h \in OptReserves, a \in OptReserves}

status_deficit(status) ==
    /\ last' = Call("deficit", Some(status), deficit(status))
    /\ UNCHANGED <<limit, all_processes, active, synced, queued, state_loaded,
                   restarts, updates, order, admitted, scen>>

slot_check_deficit(result) ==
    /\ last' = Call("SlotCheckResult::deficit", Some(result), result_deficit(result))
    /\ UNCHANGED <<limit, all_processes, active, synced, queued, state_loaded,
                   restarts, updates, order, admitted, scen>>

status_reserves_match(status) ==
    /\ last' = Call("reserves_match", Some(status), reserves_match(status))
    /\ UNCHANGED <<limit, all_processes, active, synced, queued, state_loaded,
                   restarts, updates, order, admitted, scen>>

\* ------------------------------------------------------------- properties

\* C1: in every reachable state the Active Index holds at most `limit` ids.
ActiveWithinLimit == Size(active) <= limit

\* C1 witness: admission was refused at capacity with a process waiting,
\* in a run in which a restart has happened.
ActiveAtLimit ==
    /\ last = Call("activate_next", None, None)
    /\ queued /= <<>>
    /\ Size(active) = limit
    /\ restarts > 0

\* C2: without restart the ids returned by successive activate_next calls are
\* a prefix of the ids in the order add_to_queue accepted them, and
\* activate_next returns none only at capacity or on an empty queue.
FifoOrder ==
    /\ FifoTracked => IsPrefix(admitted, order)
    /\ last = Call("activate_next", None, None) =>
            (queued = <<>> \/ Size(active) >= limit)

\* C2 witness: three ids were enqueued and all three have been admitted.
FifoThreeAdmitted == FifoTracked /\ Len(order) = 3 /\ admitted = order

\* C3: after activate_next returns, the queued records' positions are their
\* indices in the queue, and no record outside the queue has a position.
QueuePositionsExact ==
    last.op = "activate_next" =>
        /\ \A i \in 1..Len(queued) :
              queued[i].process_id \in Keys(all_processes) /\
              all_processes[queued[i].process_id].queue_position = Some(i - 1)
        /\ \A id \in Keys(all_processes) :
              ~InQueue(queued, id) => all_processes[id].queue_position = None

\* C4: every record's state agrees with its membership in the two indices.
StateIndexAgreement ==
    \A id \in Keys(all_processes) :
        LET state == all_processes[id].state IN
        /\ state = "Active" <=> (id \in Keys(active) /\ id \notin Keys(synced))
        /\ state = "Synced" <=> (id \in Keys(synced) /\ id \notin Keys(active))
        /\ state \in {"Queued", "Error"} =>
              (id \notin Keys(active) /\ id \notin Keys(synced))

\* C5: an add_to_queue call succeeds only for an id that is not in the
\* registry; otherwise it fails and changes nothing.
DuplicateRejected ==
    [][last'.op = "add_to_queue" =>
          \/ last'.ret = "Err" /\ UNCHANGED mem
          \/ last'.ret = "Ok" /\ Unwrap(last'.arg) \notin Keys(all_processes)]_vars

\* C5 witness: add_to_queue has just failed while every registered record
\* has left the state Queued and the queue is empty.
DuplicateSeen ==
    /\ last = Call("add_to_queue", None, "Err")
    /\ \A id \in Keys(all_processes) : all_processes[id].state /= "Queued"
    /\ queued = <<>>

\* C6: a restart_process or update_process_status call succeeds only for an
\* id in the registry; otherwise it fails and changes nothing.
NotFoundUnchanged ==
    [][last'.op \in {"restart_process", "update_process_status"} =>
          \/ last'.ret = "Err" /\ UNCHANGED mem
          \/ last'.ret = "Ok" /\ Unwrap(last'.arg) \in Keys(all_processes)]_vars

\* C6 witness: restart_process has just failed for an unknown id while
\* another process waits in the queue.
NotFoundSeen ==
    /\ last = Call("restart_process", None, "Err")
    /\ queued /= <<>>
    /\ Keys(all_processes) /= {}

\* C7: after restart_process succeeds the record has no error, default
\* metrics, state Queued and the position of the queue's last element, which
\* is its own entry.
RestartResets ==
    (last.op = "restart_process" /\ last.ret = "Ok") =>
        LET id == Unwrap(last.arg)
            status == all_processes[id]
        IN /\ status.error = None
           /\ status.metrics = DefaultMetrics
           /\ status.state = "Queued"
           /\ queued /= <<>>
           /\ status.queue_position = Some(Len(queued) - 1)
           /\ queued[Len(queued)].process_id = id

\* C7 witness: a record that was polled and marked Synced has been restarted.
RestartOfSynced ==
    /\ last.op = "restart_process"
    /\ last.ret = "Ok"
    /\ Unwrap(last.arg) \in Keys(synced)
    /\ synced[Unwrap(last.arg)].metrics.check_count > 0

\* C8: the capacity scenario with limit 2: P1, P2, P3 enqueued; admissions
\* return P1, P2, then none (nothing changes, P3 waits at position 0); after
\* mark_synced(P1) one id is active and one synced; the next admission
\* returns P3.
CapacityScenario ==
    [][/\ scen' \in 1..3 => last'.ret = "Ok"
       /\ scen' = 4 => last'.ret = Some(1) /\ Size(active') = 1
       /\ scen' = 5 => last'.ret = Some(2) /\ Size(active') = 2
       /\ scen' = 6 =>
             /\ last'.ret = None
             /\ UNCHANGED mem
             /\ QueueIds(queued') = <<3>>
             /\ all_processes'[3].state = "Queued"
             /\ all_processes'[3].queue_position = Some(0)
             /\ Size(active') = 2
       /\ scen' = 7 => last'.ret = "Ok" /\ Size(active') = 1 /\ Size(synced') = 1
       /\ scen' = 8 => last'.ret = Some(3) /\ Size(active') = 2]_vars

\* C8 witness: the scenario has run to its end.
ScenarioDone == scen = Len(Script) /\ limit = 2

\* C9: save_state followed by load_state into an empty manager keeps the
\* registered ids, every record's state and slots and the order of the
\* queued ids; afterwards every latency window is empty and no record has
\* reserve maps.
RoundTrip ==
    [][last'.op = "load_state" =>
          /\ Keys(all_processes') = Keys(all_processes)
          /\ \A id \in Keys(all_processes) :
                /\ all_processes'[id].state = all_processes[id].state
                /\ all_processes'[id].computed_slot = all_processes[id].computed_slot
                /\ all_processes'[id].current_slot = all_processes[id].current_slot
                /\ all_processes'[id].metrics.api_response_times = <<>>
                /\ all_processes'[id].hb_reserves = None
                /\ all_processes'[id].ao_reserves = None
          /\ QueueIds(queued') = QueueIds(queued)]_vars

\* C10: after load_state every record's state is its persisted state, the
\* id is in the Active (Synced) Index iff that state is Active (Synced), and
\* it is in the rebuilt queue only if that state is Queued.
LoadTrustsState ==
    [][last'.op = "load_state" =>
          LET file == save_state(all_processes, active, synced, queued) IN
          \A id \in Keys(file.processes) :
             LET state == file.processes[id].state IN
             /\ all_processes'[id].state = state
             /\ id \in Keys(active') <=> state = "Active"
             /\ id \in Keys(synced') <=> state = "Synced"
             /\ InQueue(queued', id) => state = "Queued"]_vars

\* C11: after load_state the queue holds the persisted queued-id list in its
\* order, or, when that list is empty, the ids persisted as Queued in
\* ascending order; and the record of the entry at index i has position i.
QueueRebuilt ==
    [][last'.op = "load_state" =>
          LET file == save_state(all_processes, active, synced, queued)
              ids == IF file.queued_process_ids /= <<>>
                     THEN file.queued_process_ids
                     ELSE Sorted({id \in Keys(file.processes) :
                                     file.processes[id].state = "Queued"})
          IN /\ QueueIds(queued') = ids
             /\ \A i \in 1..Len(queued') :
                   all_processes'[queued'[i].process_id].queue_position
                       = Some(i - 1)]_vars

\* C12: the deficit of a record is current - computed when current exceeds
\* computed, 0 when both slots are known otherwise, and undefined only when
\* a slot is unknown; the deficit of a poll result follows the same rule.
DeficitTotal ==
    /\ last.op = "deficit" =>
          LET status == Unwrap(last.arg)
              known == IsSome(status.current_slot) /\ IsSome(status.computed_slot)
              current == Unwrap(status.current_slot)
              computed == Unwrap(status.computed_slot)
          IN last.ret = IF known
                        THEN Some(IF current > computed THEN current - computed
                                  ELSE 0)
                        ELSE None
    /\ last.op = "SlotCheckResult::deficit" =>
          LET result == Unwrap(last.arg)
          IN last.ret = IF result.current_slot > result.computed_slot
                        THEN result.current_slot - result.computed_slot
                        ELSE 0

\* The entries of a reserve map whose keys are token process ids.
TokenEntries(map) ==
    [key \in {k \in DOMAIN map : Len(k) = TOKEN_ID_LEN} |-> map[key]]

\* C13: reserves_match is unknown when a reserve map is absent; otherwise it
\* is true exactly when the two maps, restricted to their 43-character
\* keys, have the same keys with the same amounts.
ReservesMatchExact ==
    last.op = "reserves_match" =>
        LET status == Unwrap(last.arg)
        IN last.ret =
              IF IsSome(status.hb_reserves) /\ IsSome(status.ao_reserves)
              THEN Some(TokenEntries(Unwrap(status.hb_reserves))
                            = TokenEntries(Unwrap(status.ao_reserves)))
              ELSE None

\* C13 witness: two maps that agree on their token ids and differ in a key
\* of another length were reported as matching.
ShortKeyIgnored ==
    /\ last.op = "reserves_match"
    /\ last.ret = Some(TRUE)
    /\ Unwrap(last.arg).hb_reserves /= Unwrap(last.arg).ao_reserves
    /\ TokenX \in DOMAIN Unwrap(Unwrap(last.arg).hb_reserves)

\* C16: no step removes an id from the registry.
NeverDeleted == [][Keys(all_processes) \subseteq Keys(all_processes')]_vars

\* C16 witness: after a restart and a reload of the state file the registry
\* still holds every process, one of them in the state Synced.
AllStillRegistered ==
    /\ state_loaded
    /\ restarts > 0
    /\ Keys(all_processes) = CoreIds
    /\ \E id \in CoreIds : all_processes[id].state = "Synced"

\* C17: a reconciliation step for a registered id changes only the name, in
\* the registry record, in the index copies and in the queue entries of the
\* id (which also take the endpoint); for an unregistered id it appends the
\* config to the queue and registers a new Queued record.
Reconciled ==
    [][\A t \in BagToSet(tasks) :
          (t.kind = "main" /\ t.config /= <<>> /\ tasks' /= tasks) =>
          LET c == Head(t.config)
              id == c.process_id
          IN IF id \in Keys(all_processes)
             THEN /\ all_processes' = [all_processes EXCEPT ![id].name = c.name]
                  /\ active' = IF id \in Keys(active)
                               THEN [active EXCEPT ![id].name = c.name]
                               ELSE active
                  /\ synced' = IF id \in Keys(synced)
                               THEN [synced EXCEPT ![id].name = c.name]
                               ELSE synced
                  /\ Len(queued') = Len(queued)
                  /\ \A i \in 1..Len(queued) :
                        queued'[i] = IF queued[i].process_id = id
                                     THEN ProcessConfig(c.name, id, c.base_url)
                                     ELSE queued[i]
             ELSE /\ queued' = Append(queued, c)
                  /\ all_processes' =
                        Put(all_processes, id,
                            [NewStatus(c.name, id) EXCEPT
                                !.queue_position = Some(Len(queued))])
                  /\ UNCHANGED <<active, synced>>]_vars

\* C18: after update_process_status succeeds the registry record is the
\* transformed one, the index copies of the id equal it, every other record
\* is untouched and the indices and the queue hold what they held.
UpdateFrame ==
    [][(last'.op = "update_process_status" /\ last'.ret = "Ok") =>
          LET id == Unwrap(last'.arg) IN
          /\ \E update_fn \in UpdateFns :
                all_processes' = [all_processes EXCEPT
                                     ![id] = Apply(update_fn, @)]
          /\ Keys(active') = Keys(active)
          /\ Keys(synced') = Keys(synced)
          /\ \A x \in Keys(active') :
                active'[x] = IF x = id THEN all_processes'[id] ELSE active[x]
          /\ \A x \in Keys(synced') :
                synced'[x] = IF x = id THEN all_processes'[id] ELSE synced[x]
          /\ queued' = queued]_vars

\* C18 witness: a record held by both indices has been updated.
UpdatedInBothIndices ==
    /\ last.op = "update_process_status"
    /\ last.ret = "Ok"
    /\ Unwrap(last.arg) \in Keys(active)
    /\ Unwrap(last.arg) \in Keys(synced)

\* The step is a successful restart_process(id).
Restarted(id) == restarts' = restarts + 1 /\ last'.arg = Some(id)

\* C14: a record in the state Synced stays Synced and stays in the Synced
\* Index across every step that is not a restart of it.
SyncedStaysSynced ==
    [][\A id \in Keys(all_processes) :
          (all_processes[id].state = "Synced" /\ ~Restarted(id)) =>
              /\ all_processes'[id].state = "Synced"
              /\ id \in Keys(synced')]_vars

\* C15: total_slots_advanced of a record never decreases across a step
\* that is not a restart of it.
TotalNeverDecreases ==
    [][\A id \in Keys(all_processes) :
          ~Restarted(id) =>
              all_processes'[id].metrics.total_slots_advanced
                  >= all_processes[id].metrics.total_slots_advanced]_vars

\* C15 witness: a check_process task that was handed computed_slot 1 has
\* polled computed_slot 0; the poll was counted and the total is still 0.
RegressionAddsZero ==
    \E t \in Running :
        /\ At(t, "check", "mark")
        /\ t.previous_computed = Some(1)
        /\ all_processes[t.process_id].computed_slot = Some(0)
        /\ all_processes[t.process_id].metrics.check_count = 2
        /\ all_processes[t.process_id].metrics.total_slots_advanced = 0

\* C20: the state of a record changes only from Queued to Active, from
\* Active to Synced or Error, or to Queued by a restart of the record.
Lifecycle ==
    [][\A id \in Keys(all_processes) :
          LET from == all_processes[id].state
              to == all_processes'[id].state
          IN \/ to = from
             \/ from = "Queued" /\ to = "Active"
             \/ from = "Active" /\ to \in {"Synced", "Error"}
             \/ to = "Queued" /\ Restarted(id)]_vars

\* The step is the successful poll of the check_process task t.
Polled(t) ==
    /\ At(t, "check", "poll")
    /\ updates' = updates + 1
    /\ last'.arg = Some(t.process_id)
    /\ tasks' \in {Finish(t), Move(t, [t EXCEPT !.pc = "mark"])}

\* The deficit the record shows: max(0, current_slot - computed_slot).
ZeroDeficit(status) ==
    /\ IsSome(status.current_slot)
    /\ IsSome(status.computed_slot)
    /\ Unwrap(status.current_slot) <= Unwrap(status.computed_slot)

\* C21: a check_process task whose poll of an Active, initialized record
\* observes a zero deficit goes on to promote the record (mark_synced), and
\* no step takes an uninitialized Active record to Synced.
PromotedAtZeroDeficit ==
    [][/\ \A t \in Running :
            (/\ Polled(t)
             /\ all_processes[t.process_id].state = "Active"
             /\ all_processes[t.process_id].cron_initialized
             /\ t.process_id \in Keys(active)
             /\ ZeroDeficit(all_processes'[t.process_id]))
                => tasks' = Move(t, [t EXCEPT !.pc = "mark"])
       /\ \A id \in Keys(all_processes) :
            (/\ all_processes[id].state = "Active"
             /\ ~all_processes[id].cron_initialized)
                => all_processes'[id].state /= "Synced"]_vars

\* C22: the task whose step takes a record into Synced goes on to fetch the
\* reserves of that record.
SyncedThenReserves ==
    [][\A id \in Keys(all_processes) :
          (all_processes[id].state /= "Synced"
              /\ all_processes'[id].state = "Synced")
            => \E t \in Running :
                  /\ t.kind \in {"check", "cron"}
                  /\ t.process_id = id
                  /\ tasks' = Move(t, [t EXCEPT !.pc = "reserves"])]_vars

\* C23: when the initialization of an admitted process has failed, its
\* record is in the state Error with the reason and is out of the Active
\* Index; when it has succeeded, the record is Active and initialized.
InitOutcome ==
    [][\A t \in Running :
          (t.kind = "init" /\ tasks' = Finish(t)) =>
              LET id == t.config.process_id IN
              IF last'.op = "mark_error"
              THEN /\ all_processes'[id].state = "Error"
                   /\ all_processes'[id].error = Some(InitError)
                   /\ id \notin Keys(active')
              ELSE /\ all_processes'[id].state = "Active"
                   /\ all_processes'[id].cron_initialized
                   /\ id \in Keys(active')]_vars

\* The step is one of the task t: it ends t or moves it on.
StepOf(t) == CopiesIn(t, tasks') < CopiesIn(t, tasks)

\* C24: the step of a check_process task after a poll in which a slot read
\* failed leaves the registry, both indices and the queue as they were.
FailedPollUnchanged ==
    [][\A t \in Running :
          (/\ At(t, "check", "read")
           /\ t.computed_read = None \/ t.current_read = None
           /\ StepOf(t))
            => mem' = mem]_vars

\* C24 witness: a poll of a record with known slots in which the computed
\* read succeeded and the current read failed.
HalfFailedPoll ==
    \E t \in Running :
        /\ At(t, "check", "read")
        /\ IsSome(t.computed_read)
        /\ t.current_read = None
        /\ all_processes[t.process_id].computed_slot = Some(0)
        /\ Unwrap(t.computed_read)[1] = 1

\* C25: across every step that is not a restart of the record,
\* total_slots_advanced grows by the forward step of the recorded
\* computed_slot, max(0, new value - previous recorded value), and by
\* nothing when no value was recorded before.
Forward(old, new) ==
    IF IsSome(old) /\ IsSome(new) /\ Unwrap(new) > Unwrap(old)
    THEN Unwrap(new) - Unwrap(old)
    ELSE 0

AdvanceCountedOnce ==
    [][\A id \in Keys(all_processes) :
          ~Restarted(id) =>
              all_processes'[id].metrics.total_slots_advanced
                  = all_processes[id].metrics.total_slots_advanced
                      + Forward(all_processes[id].computed_slot,
                                all_processes'[id].computed_slot)]_vars

\* C26: a registry record has a queue_position exactly when its state is
\* Queued.
PositionIffQueued ==
    \A id \in Keys(all_processes) :
        IsSome(all_processes[id].queue_position)
            <=> all_processes[id].state = "Queued"

\* C27: a registry record whose error is set is in the state Error.
ErrorOnlyInError ==
    \A id \in Keys(all_processes) :
        IsSome(all_processes[id].error) => all_processes[id].state = "Error"

\* C28: once initial_slot_deficit of a record is set, no step other than a
\* restart of the record changes it.
InitialDeficitOnce ==
    [][\A id \in Keys(all_processes) :
          (IsSome(all_processes[id].metrics.initial_slot_deficit)
              /\ ~Restarted(id))
            => all_processes'[id].metrics.initial_slot_deficit
                   = all_processes[id].metrics.initial_slot_deficit]_vars

\* The latency window of a record.
Window(status) == status.metrics.api_response_times

\* C29: a latency window never holds more than WINDOW samples, and a
\* successful poll appends the latency of the computed read and then that
\* of the current read and keeps the last WINDOW samples in arrival order.
WindowSlides ==
    /\ [](\A id \in Keys(all_processes) : Len(Window(all_processes[id])) <= WINDOW)
    /\ [][\A id \in Keys(all_processes) :
            (updates' = updates + 1 /\ last'.arg = Some(id)) =>
                \E result \in WindowResults :
                    LET grown == Window(all_processes[id])
                                   \o <<result.computed_response_time,
                                        result.current_response_time>>
                        kept == Window(all_processes'[id])
                    IN /\ Len(kept) = IF Len(grown) > WINDOW THEN WINDOW
                                      ELSE Len(grown)
                       /\ \A i \in 1..Len(kept) :
                             kept[i] = grown[Len(grown) - Len(kept) + i]]_vars

\* C29 witness: a full window after two polls more than fill it, with
\* samples that differ at both ends.
WindowEvicted ==
    \E id \in Keys(all_processes) :
        /\ all_processes[id].metrics.check_count = MaxWindowPolls
        /\ Len(Window(all_processes[id])) = WINDOW
        /\ Window(all_processes[id])[1] /= Window(all_processes[id])[WINDOW - 1]

\* C30: when monitor_loop leaves its admission loop, the queue is empty or
\* the Active Index holds exactly limit processes.
AdmitsToCapacity ==
    [][((\E t \in Running : At(t, "monitor", "admit"))
          /\ \E t \in BagToSet(tasks') : At(t, "monitor", "save"))
        => queued' = <<>> \/ Size(active') = limit]_vars

\* C30 witness: the admission loop has ended with two processes admitted in
\* a row, neither initialized yet, and a third left in the queue.
AdmittedTwoInARow ==
    /\ \E t \in Running : At(t, "monitor", "save")
    /\ limit = 2
    /\ Size(active) = 2
    /\ queued /= <<>>
    /\ \A id \in Keys(active) :
          /\ ~active[id].cron_initialized
          /\ \E t \in Running : t.kind = "init" /\ t.config.process_id = id

\* C31: a task whose remote call is in flight holds no guard of the four
\* locks.
NoGuardAcrossRemoteCall ==
    \A t \in Running : InFlight(t) => Held(t) = {}

\* monitor_cron_list holds the registry guard for its lookup while the
\* check_slots of a task it spawned is in flight, and is later back at its
\* own fetch_cron_list.
GuardHeldBesideRemoteCall ==
    \E t \in Running, u \in Running :
        /\ At(t, "cron_list", "decide")
        /\ Held(t) /= {}
        /\ At(u, "cron", "poll")

\* No call of op is in flight.
Returned(ops) == \A t \in Running : t.op \notin ops

\* No id has two entries in the queue.
Distinct(queue) ==
    \A i \in 1..Len(queue), j \in 1..Len(queue) :
        queue[i].process_id = queue[j].process_id => i = j

\* C32: once every add_to_queue and activate_next in flight has returned,
\* the queued records carry the positions 0..n-1 of their queue entries
\* (in runs without restart, with every id queued once).
PositionsSettle ==
    /\ Returned({"add_to_queue", "activate_next"})
    /\ restarts = 0
    /\ Distinct(queued)
    => \A i \in 1..Len(queued) :
           queued[i].process_id \in Keys(all_processes) =>
               all_processes[queued[i].process_id].queue_position
                   = Some(i - 1)

\* C33: the Active Index never holds more records than the limit, whatever
\* the interleaving of two activate_next calls.
ActiveWithinLimitConcurrent ==
    Cardinality(Keys(active)) <= limit

\* C34: after two add_to_queue calls for one new id the queue holds the id
\* once.
AddedOnce ==
    Returned({"add_to_queue"}) /\ restarts = 0 => Distinct(queued)

\* C36: with no call in flight a record is Queued iff its id is in the
\* queue, and a record is Active iff it is in the Active Index (in runs
\* without restart, with every id queued once and the index within its
\* limit).
NothingLost ==
    /\ Returned({"add_to_queue", "activate_next"})
    /\ restarts = 0
    /\ Distinct(queued)
    /\ Cardinality(Keys(active)) <= limit
    => \A id \in Keys(all_processes) :
           /\ all_processes[id].state = "Queued" <=> InQueue(queued, id)
           /\ all_processes[id].state = "Active" <=> id \in Keys(active)

\* C35: no id has two entries in the queue, so the queue is as long as
\* the set of the waiting ids is large.
EachIdQueuedOnce ==
    /\ Distinct(queued)
    /\ Len(queued) = Cardinality({id \in Ids : InQueue(queued, id)})

\* C37: every record copy of the Active Index and of the Synced Index equals
\* the registry's record of its id.
IndexCopiesIdentical ==
    \A id \in Ids :
        /\ id \in Keys(active) =>
               id \in Keys(all_processes) /\ active[id] = all_processes[id]
        /\ id \in Keys(synced) =>
               id \in Keys(all_processes) /\ synced[id] = all_processes[id]

\* The step is a successful mark_synced or mark_error of id.
Marked(op, id) ==
    /\ last' = Call(op, Some(id), "Ok")
    /\ id \in Keys(active)
    /\ id \notin Keys(active')

\* C38: mark_synced changes only state and synced_at of the registry record,
\* mark_error only state and error.
MarkFrame ==
    [][\A id \in Ids :
          /\ Marked("mark_synced", id) =>
                 all_processes'[id] =
                     [all_processes[id] EXCEPT !.state = "Synced",
                                               !.synced_at = Some(Now)]
          /\ Marked("mark_error", id) =>
                 all_processes'[id] =
                     [all_processes[id] EXCEPT !.state = "Error",
                                               !.error = Some(InitError)]]_vars

\* C39: every process that is in the queue is eventually in the Active
\* Index.
NoStarvation ==
    \A id \in CoreIds : InQueue(queued, id) ~> id \in Keys(active)

\* C40: a record that load_state restored into the Active Index with
\* cron_initialized = false is eventually initialized or out of the Active
\* Index.
RestoredMakesProgress ==
    \A id \in TaskIds :
        (state_loaded /\ id \in Keys(active) /\ ~active[id].cron_initialized)
            ~> (id \notin Keys(active) \/ active[id].cron_initialized)

\* C19: no set of running calls ever waits for each other, each for a guard
\* that another call of the set holds.
NoWaitCycle ==
    \A waiting \in SUBSET Running :
        waiting = {} \/ ~WaitForEachOther(waiting)

\* ------------------------------------------------------- specifications
\* Admission and completion calls on the processes ids.
QueueCalls(ids) ==
    \/ \E config \in Configs :
          config.process_id \in ids /\ add_to_queue(config) /\ UNCHANGED tasks
    \/ activate_next /\ UNCHANGED tasks
    \/ \E id \in ids : mark_synced(id) /\ UNCHANGED tasks
    \/ \E id \in ids : mark_error(id, InitError) /\ UNCHANGED tasks

\* Every call of the service on the processes CoreIds; restart_process and
\* update_process_status share the budget MaxExtra.
Next ==
    \/ QueueCalls(CoreIds)
    \/ \E id \in CoreIds :
          restarts + updates < MaxExtra /\ restart_process(id) /\ UNCHANGED tasks
    \/ \E id \in CoreIds, update_fn \in CoreFns :
          /\ restarts + updates < MaxExtra
          /\ update_process_status(id, update_fn)
          /\ UNCHANGED tasks
    \/ recover /\ UNCHANGED tasks

Spec == Init /\ [][Next]_vars

\* Runs without restart, update or reload, on the processes Ids.
FifoNext == QueueCalls(Ids)

FifoSpec == Init /\ [][FifoNext]_vars

\* The derived fields, computed on every record and poll result of the
\* bounded input sets.
DerivedNext ==
    \/ \E status \in SlotStatuses : status_deficit(status) /\ UNCHANGED tasks
    \/ \E result \in SlotResults : slot_check_deficit(result) /\ UNCHANGED tasks
    \/ \E status \in ReserveStatuses :
          status_reserves_match(status) /\ UNCHANGED tasks

DerivedSpec == Init /\ [][DerivedNext]_vars

\* A run of direct calls, then a start of the service with a config file.
StartupNext ==
    \/ tasks = EmptyBag /\ ~state_loaded /\ QueueCalls(CoreIds)
    \/ \E id \in CoreIds :
          /\ tasks = EmptyBag
          /\ restarts + updates < MaxExtra
          /\ restart_process(id)
          /\ UNCHANGED tasks
    \/ \E id \in CoreIds, update_fn \in CoreFns :
          /\ tasks = EmptyBag
          /\ restarts + updates < MaxExtra
          /\ update_process_status(id, update_fn)
          /\ UNCHANGED tasks
    \/ \E config \in ConfigFiles : startup(config)
    \/ reconcile

StartupSpec == Init /\ [][StartupNext]_vars

\* The service at work: the two handlers, monitor_loop and the tasks of the
\* four loops, with at most MaxTasks tasks in flight, MaxUpdates successful
\* updates and MaxRestarts restarts, under a limit that can bind.
TaskInit ==
    /\ NewManager
    /\ limit <= NumTaskIds
    /\ tasks = SetToBag({MonitorTask("checks")})

TaskNext ==
    \/ \E config \in Configs :
          config.process_id \in TaskIds /\ add_to_queue(config) /\ UNCHANGED tasks
    \/ \E id \in TaskIds :
          restarts < MaxRestarts /\ restart_process(id) /\ UNCHANGED tasks
    \/ monitor_checks
    \/ monitor_admit
    \/ monitor_save
    \/ \E t \in Running : updates < MaxUpdates /\ init_cron(t)
    \/ \E t \in Running, result \in SlotResults : updates < MaxUpdates /\ init_slots(t, result)
    \/ \E t \in Running : init_failed(t)
    \/ \E t \in Running, result \in SlotResults, minutes \in Minutes :
          updates < MaxUpdates /\ check_poll(t, result, minutes)
    \/ \E t \in Running : check_mark(t)
    \/ \E t \in Running, hb \in FetchedReserves, ao \in FetchedReserves :
          updates < MaxUpdates /\ check_reserves(t, hb, ao)
    \/ \E id \in TaskIds, created_at \in OptTimes : spawn_cron(id, created_at)
    \/ \E t \in Running, result \in SlotResults, minutes \in Minutes :
          updates < MaxUpdates /\ cron_poll(t, result, minutes)
    \/ \E t \in Running : cron_mark(t)
    \/ \E id \in TaskIds : spawn_synced(id)
    \/ \E t \in Running, result \in SlotResults : updates < MaxUpdates /\ synced_slots(t, result)
    \/ \E t \in Running, hb \in FetchedReserves, ao \in FetchedReserves :
          updates < MaxUpdates /\ synced_reserves(t, hb, ao)
    \/ \E id \in TaskIds : spawn_prefetch(id)
    \/ \E t \in Running, current_slot \in Slots : updates < MaxUpdates /\ prefetch(t, current_slot)
    \/ \E t \in Running : remote_error(t)

TaskSpec == TaskInit /\ [][TaskNext]_vars

\* The calls of the manager's operations as concurrent tasks, at most
\* MaxCalls in flight, each taking and dropping the locks as its code does.
LockFns == {f \in UpdateFns : f.kind = "init_flag"}

LockInit ==
    /\ NewManager
    /\ limit <= NumTaskIds
    /\ tasks = EmptyBag

NoneRunning(op) == \A u \in Running : u.op /= op

LockNext ==
    \/ \E config \in Configs :
          /\ config.process_id \in TaskIds
          /\ CanCall
          /\ Begin("add_to_queue", Some(config.process_id), "check",
                   Read("all_processes"),
                   Some([config |-> config, status |-> None]))
    \/ CanCall /\ Begin("activate_next", None, "count", Read("active"), None)
    \/ \E id \in TaskIds :
          /\ CanCall
          /\ Begin("mark_synced", Some(id), "remove", Write("active"), None)
    \/ \E id \in TaskIds :
          /\ CanCall
          /\ Begin("mark_error", Some(id), "remove", Write("active"), None)
    \/ \E id \in TaskIds :
          /\ CanCall
          /\ restarts < MaxRestarts
          /\ NoneRunning("restart_process")
          /\ Begin("restart_process", Some(id), "reset",
                   Write("all_processes"), None)
    \/ \E id \in TaskIds, update_fn \in LockFns :
          /\ CanCall
          /\ updates < MaxUpdates
          /\ NoneRunning("update_process_status")
          /\ Begin("update_process_status", Some(id), "all", Write("all_processes"),
                   Some(update_fn))
    \/ CanCall /\ Begin("get_queue_preview", None, "queue", Read("queued"), None)
    \/ CanCall /\ Begin("save_state", None, SaveOrder[1], Read(SaveOrder[1]), None)
    \/ \E t \in Running : add_check(t)
    \/ \E t \in Running : add_push(t)
    \/ \E t \in Running : add_insert(t)
    \/ \E t \in Running : next_count(t)
    \/ \E t \in Running : next_pop(t)
    \/ \E t \in Running : next_status(t)
    \/ \E t \in Running : next_insert(t)
    \/ \E t \in Running : next_positions(t)
    \/ \E t \in Running : mark_remove(t)
    \/ \E t \in Running : mark_insert(t)
    \/ \E t \in Running : mark_all(t)
    \/ \E t \in Running : restart_reset(t)
    \/ \E t \in Running : restart_push(t)
    \/ \E t \in Running : update_all(t)
    \/ \E t \in Running : update_active(t)
    \/ \E t \in Running : update_synced(t)
    \/ \E t \in Running : preview_queue(t)
    \/ \E t \in Running : preview_all(t)
    \/ \E t \in Running, i \in 1..Len(SaveOrder) : save_read(t, i)
    \/ \E t \in Running : save_write(t)

LockSpec == LockInit /\ [][LockNext]_vars

\* The polls at work: monitor_loop, initialization, the check_process
\* tasks read by read and the cron-list tasks, with at most MaxPolls
\* successful updates.
PollNext ==
    \/ \E config \in Configs :
          config.process_id \in TaskIds /\ add_to_queue(config) /\ UNCHANGED tasks
    \/ monitor_checks
    \/ monitor_admit
    \/ monitor_save
    \/ \E t \in Running : updates < MaxPolls /\ init_cron(t)
    \/ \E t \in Running, result \in SlotResults :
          updates < MaxPolls /\ init_slots(t, result)
    \/ \E t \in Running : init_failed(t)
    \/ \E t \in Running, computed_read \in SlotReads, current_read \in SlotReads :
          check_read(t, computed_read, current_read)
    \/ \E t \in Running, minutes \in Minutes :
          updates < MaxPolls /\ check_result(t, minutes)
    \/ \E t \in Running : check_mark(t)
    \/ \E t \in Running, hb \in FetchedReserves, ao \in FetchedReserves :
          updates < MaxPolls /\ check_reserves(t, hb, ao)
    \/ \E id \in TaskIds, created_at \in OptTimes : spawn_cron(id, created_at)
    \/ \E t \in Running, result \in SlotResults, minutes \in Minutes :
          updates < MaxPolls /\ cron_poll(t, result, minutes)
    \/ \E t \in Running : cron_mark(t)
    \/ \E t \in Running : t.pc /= "poll" /\ remote_error(t)

PollSpec == TaskInit /\ [][PollNext]_vars

\* The latency window: the polls of check_process on an admitted process,
\* MaxWindowPolls of them, each with one of two latencies for the computed
\* read.
WindowNext ==
    \/ \E config \in Configs :
          config.process_id \in TaskIds /\ add_to_queue(config) /\ UNCHANGED tasks
    \/ activate_next /\ UNCHANGED tasks
    \/ \E id \in Keys(active), result \in WindowResults :
          /\ updates < MaxWindowPolls
          /\ update_process_status(id,
                 [kind |-> "check",
                  previous_computed |-> active[id].computed_slot,
                  result |-> result, minutes |-> 0])
          /\ UNCHANGED tasks

WindowSpec == Init /\ [][WindowNext]_vars

\* The scheduler cycle: monitor_loop with its initialization and check
\* tasks on the processes Ids, under a limit of 1 or 2.
AdmitInit ==
    /\ NewManager
    /\ tasks = SetToBag({MonitorTask("checks")})

AdmitNext ==
    \/ \E config \in Configs : add_to_queue(config) /\ UNCHANGED tasks
    \/ monitor_checks
    \/ monitor_admit
    \/ monitor_save
    \/ \E t \in Running : updates < MaxUpdates /\ init_cron(t)
    \/ \E t \in Running, result \in SlotResults :
          updates < MaxUpdates /\ init_slots(t, result)
    \/ \E t \in Running : init_failed(t)
    \/ \E t \in Running, result \in SlotResults, minutes \in Minutes :
          updates < MaxUpdates /\ check_poll(t, result, minutes)
    \/ \E t \in Running : check_mark(t)
    \/ \E t \in Running : remote_error(t)

AdmitSpec == AdmitInit /\ [][AdmitNext]_vars

\* The loops and their remote calls: monitor_loop, monitor_cron_list item by
\* item, the synced-pool tasks and the tasks they spawn.
GuardInit ==
    /\ NewManager
    /\ limit <= NumTaskIds
    /\ tasks = SetToBag({MonitorTask("checks"), CronListTask("fetch", <<>>, {})})

GuardNext ==
    \/ \E config \in Configs :
          config.process_id \in TaskIds /\ add_to_queue(config) /\ UNCHANGED tasks
    \/ monitor_checks
    \/ monitor_admit
    \/ monitor_save
    \/ \E t \in Running : updates < MaxPolls /\ init_cron(t)
    \/ \E t \in Running, result \in SlotResults :
          updates < MaxPolls /\ init_slots(t, result)
    \/ \E t \in Running : init_failed(t)
    \/ \E t \in Running, result \in SlotResults, minutes \in Minutes :
          updates < MaxPolls /\ check_poll(t, result, minutes)
    \/ \E t \in Running : check_mark(t)
    \/ \E t \in Running, hb \in FetchedReserves, ao \in FetchedReserves :
          updates < MaxPolls /\ check_reserves(t, hb, ao)
    \/ \E t \in Running, items \in CronLists : cron_list_fetched(t, items)
    \/ \E t \in Running : cron_list_lookup(t)
    \/ \E t \in Running, created_at \in OptTimes : cron_list_decide(t, created_at)
    \/ \E t \in Running : cron_list_sleep(t)
    \/ \E t \in Running, result \in SlotResults, minutes \in Minutes :
          updates < MaxPolls /\ cron_poll(t, result, minutes)
    \/ \E t \in Running : cron_mark(t)
    \/ \E id \in TaskIds : spawn_synced(id)
    \/ \E t \in Running, result \in SlotResults :
          updates < MaxPolls /\ synced_slots(t, result)
    \/ \E t \in Running, hb \in FetchedReserves, ao \in FetchedReserves :
          updates < MaxPolls /\ synced_reserves(t, hb, ao)
    \/ \E t \in Running : remote_error(t)

GuardSpec == GuardInit /\ [][GuardNext]_vars

\* The races of the queue: add_to_queue and activate_next as concurrent
\* calls on the processes CoreIds, lock by lock, at most MaxCalls in flight.
RaceNext ==
    \/ \E config \in Configs :
          /\ config.process_id \in CoreIds
          /\ CanCall
          /\ Begin("add_to_queue", Some(config.process_id), "check",
                   Read("all_processes"),
                   Some([config |-> config, status |-> None]))
    \/ CanCall /\ Begin("activate_next", None, "count", Read("active"), None)
    \/ \E t \in Running : add_check(t)
    \/ \E t \in Running : add_push(t)
    \/ \E t \in Running : add_insert(t)
    \/ \E t \in Running : next_count(t)
    \/ \E t \in Running : next_pop(t)
    \/ \E t \in Running : next_status(t)
    \/ \E t \in Running : next_insert(t)
    \/ \E t \in Running : next_positions(t)

RaceSpec == Init /\ [][RaceNext]_vars

\* The admission loop under fair scheduling: the handler's add_to_queue
\* calls and monitor_loop's activate_next calls on the processes CoreIds,
\* lock by lock, one call of each in flight at most, and the end of the
\* work on an admitted process.  Every call that has started goes on, the
\* loop calls activate_next again and again, and every process of the
\* Active Index leaves it.
add_call(config) ==
    /\ NoneRunning("add_to_queue")
    /\ Begin("add_to_queue", Some(config.process_id), "check",
             Read("all_processes"), Some([config |-> config, status |-> None]))

next_call ==
    /\ NoneRunning("activate_next")
    /\ Begin("activate_next", None, "count", Read("active"), None)

leave(process_id) ==
    /\ process_id \in Keys(active)
    /\ mark_synced(process_id)
    /\ UNCHANGED tasks

LiveNext ==
    \/ \E config \in Configs : config.process_id \in CoreIds /\ add_call(config)
    \/ next_call
    \/ \E id \in CoreIds : leave(id)
    \/ \E t \in Running : add_check(t)
    \/ \E t \in Running : add_push(t)
    \/ \E t \in Running : add_insert(t)
    \/ \E t \in Running : next_count(t)
    \/ \E t \in Running : next_pop(t)
    \/ \E t \in Running : next_status(t)
    \/ \E t \in Running : next_insert(t)
    \/ \E t \in Running : next_positions(t)

LiveSpec ==
    /\ Init
    /\ [][LiveNext]_vars
    /\ WF_vars(next_call)
    /\ \A id \in CoreIds : WF_vars(leave(id))
    /\ WF_vars(\E t \in Running : add_check(t))
    /\ WF_vars(\E t \in Running : add_push(t))
    /\ WF_vars(\E t \in Running : add_insert(t))
    /\ WF_vars(\E t \in Running : next_count(t))
    /\ WF_vars(\E t \in Running : next_pop(t))
    /\ WF_vars(\E t \in Running : next_status(t))
    /\ WF_vars(\E t \in Running : next_insert(t))
    /\ WF_vars(\E t \in Running : next_positions(t))

\* Crash and recovery: monitor_loop with its initialization and check tasks
\* on the processes TaskIds, one crash right after a save, and the service
\* started again.  The loop and every task in flight go on: a remote call
\* returns, with a result or with an error.
CrashNext ==
    \/ \E config \in Configs :
          config.process_id \in TaskIds /\ add_to_queue(config) /\ UNCHANGED tasks
    \/ crash
    \/ monitor_checks
    \/ monitor_admit
    \/ monitor_save
    \/ \E t \in Running : updates < MaxUpdates /\ init_cron(t)
    \/ \E t \in Running, result \in SlotResults :
          updates < MaxUpdates /\ init_slots(t, result)
    \/ \E t \in Running : init_failed(t)
    \/ \E t \in Running, result \in SlotResults, minutes \in Minutes :
          updates < MaxUpdates /\ check_poll(t, result, minutes)
    \/ \E t \in Running : check_mark(t)
    \/ \E t \in Running, result \in SlotResults :
          updates < MaxUpdates /\ recover_slots(t, result)
    \/ \E t \in Running : recover_failed(t)
    \/ \E t \in Running : remote_error(t)

CrashSpec ==
    /\ TaskInit
    /\ [][CrashNext]_vars
    /\ WF_vars(monitor_checks)
    /\ WF_vars(monitor_admit)
    /\ WF_vars(monitor_save)
    /\ WF_vars(\E t \in Running : init_failed(t))
    /\ WF_vars(\E t \in Running : check_mark(t))
    /\ WF_vars(\E t \in Running : recover_failed(t))
    /\ WF_vars(\E t \in Running : remote_error(t))

====
